---------------------------- MODULE Spec2Model ----------------------------
(***************************************************************************)
(* PrizePicker: the slip-selection engine of find_bets.py (get_slips and   *)
(* the dashboard handler) and the odds normalizer calculate_novig of the   *)
(* two scrapers.                                                           *)
(*                                                                         *)
(* Numbers.  The program computes on IEEE-754 binary64 values (Python      *)
(* float).  A non-negative binary64 value is modelled as a record          *)
(* [m, e] standing for m * 2^e, with m = 0 (zero) or 2^52 <= m < 2^53,     *)
(* and +, / and round(x, 2) are computed with round-to-nearest-even on     *)
(* that representation, so a sum, a mean or a rounding gives the value the *)
(* interpreter gives.  TLC's integers are 32 bits wide, so a mantissa is   *)
(* held in three limbs of 30 bits (Big).                                   *)
(*                                                                         *)
(* A percentage with at most two decimals (a table cell such as 57.74, a   *)
(* threshold, a value returned by round(x, 2)) is named by its number of   *)
(* hundredths (5774); PctF64 gives the binary64 value the program holds    *)
(* for it.  A book line is named by its number of halves (22.5 -> 45).     *)
(***************************************************************************)
EXTENDS Integers, Sequences, FiniteSets, TLC

(***************************************************************************)
(* Naturals below 2^90 in three limbs of 30 bits: <<a, b, c>> stands for   *)
(* a * 2^60 + b * 2^30 + c.                                                *)
(***************************************************************************)
Base == 2^30

BigZero == <<0, 0, 0>>

BigOfInt(n) == <<0, n \div Base, n % Base>>

BigToInt(x) == x[2] * Base + x[3]

BigAdd(x, y) ==
    LET s0 == x[3] + y[3]
        s1 == x[2] + y[2] + (s0 \div Base)
        s2 == x[1] + y[1] + (s1 \div Base)
    IN  <<s2, s1 % Base, s0 % Base>>

\* x - y for x >= y
BigSub(x, y) ==
    LET d0 == x[3] - y[3]
        b0 == IF d0 < 0 THEN 1 ELSE 0
        d1 == x[2] - y[2] - b0
        b1 == IF d1 < 0 THEN 1 ELSE 0
    IN  <<x[1] - y[1] - b1, d1 + b1 * Base, d0 + b0 * Base>>

BigLt(x, y) ==
    \/ x[1] < y[1]
    \/ x[1] = y[1] /\ x[2] < y[2]
    \/ x[1] = y[1] /\ x[2] = y[2] /\ x[3] < y[3]

BigLe(x, y) == ~BigLt(y, x)

BigDbl(x) == BigAdd(x, x)

BigHalf(x) ==
    <<x[1] \div 2,
      (x[2] \div 2) + (x[1] % 2) * (Base \div 2),
      (x[3] \div 2) + (x[2] % 2) * (Base \div 2)>>

BigOdd(x) == x[3] % 2 = 1

BigInc(x) == BigAdd(x, <<0, 0, 1>>)

\* In the operators below, CHOOSE over a one-element set binds a value once
\* before it is used; in the recursive ones it binds the value of the next
\* step before the recursive call, which keeps the depth of an evaluation to
\* the depth of the recursion.

\* the bits of a limb
LimbBits == CHOOSE k \in 1..31 : 2^k = Base

\* x shifted left by k bits, for a result below 2^90: by limbs, then by bits
BigShl(x, k) ==
    IF k <= 0 THEN x
    ELSE CHOOSE out \in
        {LET v  == a[1]
             n  == a[2] \div LimbBits
             s  == a[2] % LimbBits
             lo == 2^(LimbBits - s)
             hi == 2^s
             w3 == (v[3] % lo) * hi
             w2 == (v[2] % lo) * hi + (v[3] \div lo)
             w1 == v[1] * hi + (v[2] \div lo)
         IN  IF n = 0 THEN <<w1, w2, w3>>
             ELSE IF n = 1 THEN <<w1 * Base + w2, w3, 0>>
             ELSE <<(w1 * Base + w2) * Base + w3, 0, 0>> :
         a \in {<<x, k>>}} : TRUE

\* x shifted right by k bits; the result's lowest bit is also set when a 1 was
\* shifted out (the sticky bit of a rounding).
BigShrSticky(x, k) ==
    CHOOSE out \in
        {IF a[2] <= 0 \/ a[1] = BigZero THEN a[1]
         ELSE LET v  == a[1]
                  n  == a[2] \div LimbBits
                  s  == a[2] % LimbBits
                  y  == IF n = 0 THEN v
                        ELSE IF n = 1 THEN <<0, v[1], v[2]>>
                        ELSE IF n = 2 THEN <<0, 0, v[1]>>
                        ELSE BigZero
                  lostLimbs == IF n = 0 THEN FALSE
                               ELSE IF n = 1 THEN v[3] # 0
                               ELSE IF n = 2 THEN v[2] # 0 \/ v[3] # 0
                               ELSE TRUE
                  p  == 2^s
                  up == 2^(LimbBits - s)
                  h  == <<y[1] \div p,
                          (y[2] \div p) + (y[1] % p) * up,
                          (y[3] \div p) + (y[2] % p) * up>>
                  lost == lostLimbs \/ y[3] % p # 0
              IN  IF lost /\ ~BigOdd(h) THEN BigInc(h) ELSE h :
         a \in {<<x, k>>}} : TRUE

\* the number of bits of a limb n > 0, and of x > 0
LimbLen(n) == CHOOSE k \in 1..LimbBits : 2^(k - 1) <= n /\ (k = LimbBits \/ n < 2^k)

BigLen(x) ==
    IF x[1] # 0 THEN 2 * LimbBits + LimbLen(x[1])
    ELSE IF x[2] # 0 THEN LimbBits + LimbLen(x[2])
    ELSE LimbLen(x[3])

HalfLimb == 2^15

\* one limb times c < 2^14, by half limbs: <<carry, limb>>
BigMulLimb(l, c) ==
    CHOOSE out \in
        {LET low == (ph % HalfLimb) * HalfLimb + (l % HalfLimb) * c
         IN  <<(ph \div HalfLimb) + (low \div Base), low % Base>> :
         ph \in {(l \div HalfLimb) * c}} : TRUE

\* x * c for a natural c < 2^14
BigMulSmall(x, c) ==
    CHOOSE out \in
        {LET s3 == p[3][2]
             s2 == p[2][2] + p[3][1]
             s1 == p[1][2] + p[2][1] + (s2 \div Base)
         IN  <<s1, s2 % Base, s3>> :
         p \in {<<BigMulLimb(x[1], c), BigMulLimb(x[2], c), BigMulLimb(x[3], c)>>}} : TRUE

Two52 == <<0, 2^22, 0>>
Two53 == <<0, 2^23, 0>>
Two55 == <<0, 2^25, 0>>
Two56 == <<0, 2^26, 0>>

(***************************************************************************)
(* binary64, non-negative: [m |-> mantissa, e |-> exponent], value m * 2^e.*)
(***************************************************************************)
F64Zero == [m |-> BigZero, e |-> 0]

F64IsZero(x) == x.m = BigZero

\* q in [2^52, 2^53] after a rounding: 2^53 is renormalised
F64Norm(q, e) ==
    IF q = Two53 THEN [m |-> Two52, e |-> e + 1] ELSE [m |-> q, e |-> e]

\* the binary64 value of a natural n < 2^31 (exact)
F64Up(m, e) ==
    CHOOSE out \in
        {[m |-> BigShl(a[1], 53 - a[3]), e |-> a[2] - (53 - a[3])] :
         a \in {<<m, e, IF BigLt(m, Two52) THEN BigLen(m) ELSE 53>>}} : TRUE

F64OfInt(n) == IF n = 0 THEN F64Zero ELSE F64Up(BigOfInt(n), 0)

F64Lt(x, y) ==
    \E a \in {x}, b \in {y} :
        IF F64IsZero(b) THEN FALSE
        ELSE IF F64IsZero(a) THEN TRUE
        ELSE a.e < b.e \/ (a.e = b.e /\ BigLt(a.m, b.m))

F64Le(x, y) == ~F64Lt(y, x)

\* the digit d raised until the remainder r is below b
RECURSIVE F64DivFix(_, _, _)
F64DivFix(d, r, b) ==
    CHOOSE out \in
        {IF BigLt(v[2], v[3]) THEN <<v[1], v[2]>>
         ELSE F64DivFix(v[1] + 1, BigSub(v[2], v[3]), v[3]) :
         v \in {<<d, r, b>>}} : TRUE

\* 13 more quotient bits of r / b, for r < b and 2^52 <= b < 2^53:
\* <<d, remainder>> with r * 2^13 = d * b + remainder.  The leading bits of
\* r * 2^13 and of b give a d0 that is at most 2 below d.
F64DivChunk(r, b) ==
    CHOOSE out \in
        {LET d0 == (n[1] * 2^22 + (n[2] \div 2^8)) \div ((b[2] \div 2^8) + 1)
         IN  CHOOSE fix \in {F64DivFix(d0, BigSub(n, m), b) :
                             m \in {BigMulSmall(b, d0)}} : TRUE :
         n \in {BigShl(r, 13)}} : TRUE

\* k more quotient bits of r / b (r < b), 13 at a time, k a multiple of 13:
\* <<quotient, remainder>>
RECURSIVE F64DivBits(_, _, _, _)
F64DivBits(r, b, q, k) ==
    IF k = 0 THEN <<q, r>>
    ELSE CHOOSE out \in
        {F64DivBits(a[1], a[2], a[3], a[4]) :
         a \in {<<dr[2], b, BigAdd(BigShl(q, 13), BigOfInt(dr[1])), k - 13>> :
                dr \in {F64DivChunk(r, b)}}} : TRUE

\* the quotient of the mantissas xm / ym, of exponent e0: the first bit and
\* 52 more, rounded to nearest, ties to even
F64DivRound(xm, ym, ge, e0) ==
    CHOOSE out \in
        {LET q  == qr[1]
             r2 == BigDbl(qr[2])
             up == BigLt(ym, r2) \/ (r2 = ym /\ BigOdd(q))
         IN  F64Norm(IF up THEN BigInc(q) ELSE q, e0 - 52) :
         qr \in {F64DivBits(BigSub(IF ge THEN xm ELSE BigDbl(xm), ym), ym,
                            <<0, 0, 1>>, 52)}} : TRUE

\* x / y for y # 0, rounded to nearest, ties to even
F64Div(x, y) ==
    CHOOSE out \in
        {IF F64IsZero(a) THEN F64Zero
         ELSE LET ge == BigLe(b.m, a.m)
              IN  F64DivRound(a.m, b.m, ge, IF ge THEN a.e - b.e ELSE a.e - b.e - 1) :
         a \in {x}, b \in {y}} : TRUE

\* a mantissa with three guard bits, 2^55 <= s3 < 2^56, the last of them
\* sticky, rounded to nearest, ties to even
F64RoundGuard(s3, e) ==
    CHOOSE out \in
        {LET q  == BigHalf(BigHalf(BigHalf(s)))
             g  == s[3] % 8
             up == g > 4 \/ (g = 4 /\ BigOdd(q))
         IN  F64Norm(IF up THEN BigInc(q) ELSE q, e) :
         s \in {s3}} : TRUE

\* the sum s0 of two aligned mantissas with guard bits, brought back below
\* 2^56 when it carried
F64AddCarry(s0, e) ==
    CHOOSE out \in
        {IF BigLe(Two56, s) THEN F64RoundGuard(BigShrSticky(s, 1), e + 1)
         ELSE F64RoundGuard(s, e) :
         s \in {s0}} : TRUE

\* x + y, rounded to nearest, ties to even (three guard bits, the last sticky)
F64Add(x, y) ==
    IF F64IsZero(x) THEN y
    ELSE IF F64IsZero(y) THEN x
    ELSE LET hi == IF x.e >= y.e THEN x ELSE y
             lo == IF x.e >= y.e THEN y ELSE x
             a  == BigShl(hi.m, 3)
             b  == BigShrSticky(BigShl(lo.m, 3), hi.e - lo.e)
         IN  F64AddCarry(BigAdd(a, b), hi.e)

\* d * 2^e with 0 < d < 2^56 brought to 2^55 <= d < 2^56
F64SubNorm(d, e) ==
    CHOOSE out \in
        {<<BigShl(a[1], 56 - a[3]), a[2] - (56 - a[3])>> :
         a \in {<<d, e, IF BigLt(d, Two55) THEN BigLen(d) ELSE 56>>}} : TRUE

\* x - y for x >= y, rounded to nearest, ties to even (three guard bits, the
\* last sticky)
F64Sub(x, y) ==
    IF F64IsZero(y) THEN x
    ELSE LET a  == BigShl(x.m, 3)
             b  == BigShrSticky(BigShl(y.m, 3), x.e - y.e)
         IN  IF a = b THEN F64Zero
             ELSE CHOOSE out \in {F64RoundGuard(de[1], de[2]) :
                                  de \in {F64SubNorm(BigSub(a, b), x.e)}} : TRUE

\* round(x, 2) of Python for 0 <= x < 2^20: the number of hundredths nearest
\* to the exact value of x, ties to even
Round2(x) ==
    CHOOSE out \in
        {LET q  == BigToInt(BigHalf(BigHalf(w)))
             g  == w[3] % 4
             up == g > 2 \/ (g = 2 /\ q % 2 = 1)
         IN  IF up THEN q + 1 ELSE q :
         w \in {IF F64IsZero(x) THEN BigZero
                ELSE BigShrSticky(BigShl(BigMulSmall(x.m, 100), 2), 0 - x.e)}} : TRUE

\* the binary64 value of the decimal with n hundredths (float("57.74"))
F64OfPct(n) == F64Div(F64OfInt(n), F64OfInt(100))

F64One == F64OfInt(1)

(***************************************************************************)
(* calculate_novig (scraper.py 23-51; fanduelScraper.py 11-28 is the same  *)
(* function).  Odds are integers: the callers pass int(o), int(u).         *)
(***************************************************************************)
Abs(n) == IF n < 0 THEN 0 - n ELSE n

get_implied(american_odds) ==
    IF american_odds > 0
    THEN F64Div(F64OfInt(100), F64OfInt(american_odds + 100))
    ELSE F64Div(F64OfInt(Abs(american_odds)), F64OfInt(Abs(american_odds) + 100))

\* the function as it would be without the divisions of lines 47-48
calculate_novig_raw(over_odds, under_odds) ==
    <<get_implied(over_odds), get_implied(under_odds)>>

\* the outcome of a block that an exception leaves: a triple, where a value
\* is a sequence of at most two elements
Raise(exc) == <<"raise", exc, "">>

Raised(out) == Len(out) = 3

\* the body of the try (lines 41-49): <<fair_over, fair_under>>, or the
\* ZeroDivisionError of the first division when market_sum is 0.0
novig_try(over_odds, under_odds) ==
    LET prob_over  == get_implied(over_odds)
        prob_under == get_implied(under_odds)
    IN  CHOOSE out \in {IF F64IsZero(market_sum)
                        THEN Raise("ZeroDivisionError")
                        ELSE <<F64Div(prob_over, market_sum),
                               F64Div(prob_under, market_sum)>> :
                        market_sum \in {F64Add(prob_over, prob_under)}} : TRUE

\* the function as it would be without the except clause of lines 50-51
calculate_novig_uncaught(over_odds, under_odds) == novig_try(over_odds, under_odds)

\* except ZeroDivisionError: return 0.0, 0.0
calculate_novig(over_odds, under_odds) ==
    LET out == novig_try(over_odds, under_odds)
    IN  IF Raised(out) THEN <<F64Zero, F64Zero>> ELSE out

(***************************************************************************)
(* find_bets.py: configuration.  Percentages in hundredths.                *)
(***************************************************************************)
THRESHOLDS ==
    [power |-> (2 :> 5774 @@ 3 :> 5505 @@ 4 :> 5623 @@ 5 :> 5493 @@ 6 :> 5466),
     flex  |-> (3 :> 5774 @@ 4 :> 5504 @@ 5 :> 5426 @@ 6 :> 5421)]

\* the fallback of THRESHOLDS.get(style, {}).get(target_size, 54.21)
default_threshold == 5421

\* min_candidate_prob = 53.5
min_candidate_prob == 5350

\* abs(fd_line - pp_line) <= 0.5, in halves
line_tolerance == 1

\* pool[:51]
top_props_count == 51

\* is_monte_carlo = target_size >= 5
monte_carlo_size == 5

max_slips == 2000

limit_check_max == 3000000

iterations == 200000

limit == 1000

\* int(size_arg) failed: size = 6
fallback_size == 6

(***************************************************************************)
(* Bounds of the model and the inputs.                                     *)
(***************************************************************************)
\* rows of a table drawn freely from RowDomain
MaxRows == 2

\* requested sizes range over MinSize .. monte_carlo_size + SizeSpan
SizeSpan == 2

\* book lines range over BaseLine .. BaseLine + LineSpread (halves)
BaseLine == 44

LineSpread == 2

\* rows of a table of the pairing loop's specification
MaxPairRows == 3

\* the longest table of the single prop view has MoreProps rows more than
\* the view shows
MoreProps == 2

\* rows of the longer table of the cut of the loop over the combinations: the
\* least number of which more than limit_check_max sets of four can be made
CutRows == 94

\* odds range over the multiples of OddsStep, OddsSteps of them each way
OddsStep == 10

OddsSteps == 15

Names == <<"A", "B", "C", "D", "E">>

\* the i-th player: a name of Names, and "P" and the number beyond them
PlayerName(i) == IF i <= Len(Names) THEN Names[i] ELSE "P" \o ToString(i)

\* a table cell holding a line: text is what str() of the cell gives when it
\* is not the text of a number in halves ("" then)
Num(h) == [text |-> "", halves |-> h]
Txt(s) == [text |-> s, halves |-> 0]

Row(player, team, prop, fd, pp, over, under) ==
    [Player |-> player, Team |-> team, Prop |-> prop, FD |-> fd, PP |-> pp,
     FairOver |-> over, FairUnder |-> under]

\* fair percentages of the search tables: around the 57.74 thresholds
PctVals == {5773, 5774, 5776}

\* a player on two teams, and two players on one team
PlayerTeams == {<<"A", "X">>, <<"A", "Y">>, <<"B", "Y">>}

RowDomain ==
    {Row(pt[1], <<pt[2]>>, "Pts", Num(BaseLine), Num(BaseLine), o, 10000 - o) :
        pt \in PlayerTeams, o \in PctVals}

SmallTables == UNION {[1..n -> RowDomain] : n \in 0..MaxRows}

\* n rows of d players in turn, on alternating teams ("team - position"
\* cells), the first j rows at the percentage lo on the UNDER side and the
\* others at hi on the OVER side
WideTable(n, j, d, lo, hi) ==
    [i \in 1..n |->
        Row(PlayerName(((i - 1) % d) + 1), <<IF i % 2 = 1 THEN "X" ELSE "Y", "G">>,
            IF i % 3 = 0 THEN "Reb" ELSE "Pts", Num(BaseLine), Num(BaseLine + 1),
            IF i <= j THEN 10000 - lo ELSE hi, IF i <= j THEN lo ELSE 10000 - hi)]

\* rows of as many players at the percentages pcts on the OVER side, on the
\* teams of the same place
PctTable(pcts, teams) ==
    [i \in 1..Len(pcts) |->
        Row(PlayerName(i), <<teams[i], "G">>, "Pts", Num(BaseLine),
            Num(BaseLine + 1), pcts[i], 10000 - pcts[i])]

\* the tables of the Monte Carlo loop: five rows, and six rows of which five
\* are of one team, whose percentages have the default threshold 54.21 as
\* their mean.  sum() from the left brings the mean of some arrangements of
\* the rows above 54.21 and that of the others not; the compensated sum()
\* brings none above it.
SampledTables ==
    {PctTable(<<5507, 5409, 5408, 5392, 5389>>, <<"X", "Y", "X", "Y", "X">>),
     PctTable(<<5444, 5432, 5431, 5428, 5426, 5365>>,
              <<"X", "X", "X", "X", "X", "Y">>)}

\* three and four rows around the 57.74 thresholds; four rows just above the
\* default threshold; five rows with one player twice, one and two of them
\* at the lower percentage; two rows at 58 and 60; four rows at 57.74, 57.76,
\* 57.76, 57.76, of which the two sums differ; the tables of the Monte Carlo
\* loop
WideTables ==
    {WideTable(n, j, 5, 5773, 5776) : n \in {3, 4}, j \in {0, 1, 2}}
        \cup {WideTable(4, 1, 5, 5422, 5423), WideTable(5, 1, 4, 5773, 5776),
              WideTable(5, 2, 4, 5773, 5776), WideTable(2, 1, 5, 5800, 6000),
              WideTable(4, 1, 5, 5774, 5776)}
        \cup SampledTables

Tables == SmallTables \cup WideTables

\* the tables of the pairing loop's specification: up to MaxPairRows rows of
\* two players of team X and one of team Y at two percentages, and tables of
\* four rows: one of team X at 57.76, one more of team X, any row, one of
\* team Y
PairRowDomain ==
    {r \in RowDomain : <<r.Player, r.Team[1]>> \in {<<"A", "X">>, <<"B", "Y">>}
                       /\ r.FairOver \in {5773, 5776}}
        \cup {Row("C", <<"X">>, "Pts", Num(BaseLine), Num(BaseLine), o, 10000 - o) :
                 o \in {5773, 5776}}

PairTables ==
    UNION {[1..n -> PairRowDomain] : n \in 0..MaxPairRows}
        \cup {<<a, b, c, d>> :
                 a \in {r \in PairRowDomain : r.Player = "A" /\ r.FairOver = 5776},
                 b \in {r \in PairRowDomain : r.Team[1] = "X"},
                 c \in PairRowDomain,
                 d \in {r \in PairRowDomain : r.Team[1] = "Y"}}

\* the table of the ranker's cap: rows for `limit` pairs and two pairs more,
\* of as many players at 57.76 on alternating teams, but the third row from
\* the end is of the first row's player; the pairing loop pairs the k-th row
\* with the k-th from the end
RankCapRows == 2 * limit + 4

RankCapTable ==
    [i \in 1..RankCapRows |->
        Row(PlayerName(IF i = RankCapRows - 2 THEN 1 ELSE i),
            <<IF i % 2 = 1 THEN "X" ELSE "Y", "G">>, "Pts",
            Num(BaseLine), Num(BaseLine + 1), 5776, 10000 - 5776)]

\* the table of the cap of the loop over the combinations: more triples of
\* distinct players and two teams above 57.74 than max_slips; the last rows
\* are of the first rows' players
BruteCapTable == WideTable(28, 3, 24, 5773, 5776)

\* n rows at falling percentages from 60.99 down, each a Candidate, all on
\* team X but the first row and the fourth from the end, which are of the
\* first player on team Y with two prop types.  The first four rows are of
\* four players and so are the last four; the rows between them are of the
\* first player.
CutTable(n) ==
    [i \in 1..n |->
        Row(PlayerName(IF i <= 4 THEN i ELSE IF i > n - 3 THEN i - (n - 3) + 4 ELSE 1),
            <<IF i = 1 \/ i = n - 3 THEN "Y" ELSE "X", "G">>,
            IF i = n - 3 THEN "Reb" ELSE "Pts",
            Num(BaseLine), Num(BaseLine + 1), 6100 - i, 10000 - (6100 - i))]

\* the tables of the cut of the loop over the combinations: one row short of
\* CutRows, whose sets of four the loop goes through to the last, and
\* CutRows, where the loop is left before the set of the last four rows
CutTables == {CutTable(CutRows - 1), CutTable(CutRows)}

LargeTables == {RankCapTable, BruteCapTable} \cup CutTables

\* seven rows of four players, the first at the lower percentage: the pairs of
\* places 2 and 3, 4 and 5, 6 and 7 have no id in common, and the pair of
\* places 2 and 1 comes after them in the sorted list
WalkTable == WideTable(7, 1, 4, 5773, 5776)

\* n rows that all give a Candidate, five players in turn, the percentages
\* going through seven values above the floor in steps of k
LongTable(n, k) ==
    [i \in 1..n |->
        Row(Names[((i - 1) % 5) + 1], <<IF i % 2 = 1 THEN "X" ELSE "Y", "G">>,
            IF i % 3 = 0 THEN "Reb" ELSE "Pts", Num(BaseLine), Num(BaseLine),
            min_candidate_prob + 1 + ((i * k) % 7), 4000)]

\* the tables of the single prop view: the small ones, and long ones of one
\* row less than the view shows up to MoreProps rows more
PropTables ==
    SmallTables
        \cup {LongTable(n, k) : n \in (top_props_count - 1)..(top_props_count + MoreProps),
                                k \in {1, 3}}

\* the tables of the extractor's specification: one row of any two line
\* cells and fair percentages around the floor, or two rows of numeric lines
LineCells ==
    {Txt("NL"), Txt("FF"), Txt("nan"), Txt("abc")}
        \cup {Num(BaseLine + d) : d \in 0..LineSpread}

ExtractPcts == {min_candidate_prob, min_candidate_prob + 1, 6000}

ExtractRows ==
    {Row("A", <<"X", "G">>, "Pts", fd, pp, o, u) :
        fd \in LineCells, pp \in LineCells, o \in ExtractPcts, u \in ExtractPcts}

ExtractRowsNumeric ==
    {r \in ExtractRows : r.FD = Num(BaseLine) /\ r.PP.text = ""}

\* rows with and without a player name ("" stands for an empty Player cell
\* of the csv, which pandas reads as NaN), each line a number or a text that
\* is none
ExtractRowsMalformed ==
    {Row(p, <<"X", "G">>, "Pts", fd, pp, 6000, 4000) :
        p \in {"A", ""}, fd \in {Txt("abc"), Num(BaseLine)},
        pp \in {Txt("abc"), Num(BaseLine)}}

ExtractTables ==
    [1..1 -> ExtractRows] \cup [1..2 -> ExtractRowsNumeric]
        \cup [1..2 -> ExtractRowsMalformed]

Odds == {k * OddsStep : k \in (0 - OddsSteps)..OddsSteps}

\* requests: ?size= as text of an integer or not, ?style= any text
MinSize == 0 - 1

SizeArgs ==
    {[numeric |-> TRUE, n |-> k] : k \in MinSize..(monte_carlo_size + SizeSpan)}
        \cup {[numeric |-> FALSE, n |-> 0]}

StyleArgs == {"power", "flex", "props", "Power"}

(***************************************************************************)
(* get_slips: the candidate extractor (lines 82-138), one row.             *)
(* A Candidate keeps the fields the search reads; the presentation fields  *)
(* (Initials, Player_Image, Sport, Edge) are left out.                     *)
(***************************************************************************)
\* float(text) succeeds
Parses(cell) == cell.text \in {"", "nan"}

\* the choice as it would be with >= for > at lines 104, 107
bet_type_at_floor(fair_over, fair_under) ==
    IF fair_over >= min_candidate_prob THEN "OVER"
    ELSE IF fair_under >= min_candidate_prob THEN "UNDER"
    ELSE "None"

\* the choice as it would be with the UNDER side looked at first
bet_type_under_first(fair_over, fair_under) ==
    IF fair_under > min_candidate_prob THEN "UNDER"
    ELSE IF fair_over > min_candidate_prob THEN "OVER"
    ELSE "None"

\* the choice as it would be with the larger probability winning
bet_type_larger(fair_over, fair_under) ==
    IF fair_over >= fair_under
    THEN IF fair_over > min_candidate_prob THEN "OVER" ELSE "None"
    ELSE IF fair_under > min_candidate_prob THEN "UNDER" ELSE "None"

\* lines 101-109: the side to bet, OVER looked at first; "None" for neither
bet_type(fair_over, fair_under) ==
    IF fair_over > min_candidate_prob THEN "OVER"
    ELSE IF fair_under > min_candidate_prob THEN "UNDER"
    ELSE "None"

\* str(row.get("Player", "")) (line 116): the text of the cell, "nan" for an
\* empty cell
player_name(row) == IF row.Player = "" THEN "nan" ELSE row.Player

\* the body of the try (lines 84-136): <<>>, the one Candidate of the row, or
\* the ValueError of float() on a text that is no number
row_try(row) ==
    IF row.FD.text \in {"NL", "FF"} \/ row.PP.text \in {"NL", "FF", "nan"}
    THEN <<>>
    ELSE IF ~Parses(row.FD) \/ ~Parses(row.PP)
    THEN Raise("ValueError")
    ELSE IF row.FD.text = "nan"
    THEN <<>>   \* abs(nan - pp_line) <= 0.5 is false
    ELSE IF Abs(row.FD.halves - row.PP.halves) <= line_tolerance
    THEN LET side == bet_type(row.FairOver, row.FairUnder)
             fair_prob == IF side = "OVER" THEN row.FairOver ELSE row.FairUnder
         IN  IF side = "None" THEN <<>>
             ELSE <<[id |-> player_name(row) \o "_" \o row.Prop,
                     Player |-> player_name(row),
                     Team |-> row.Team[1],
                     Position |-> IF Len(row.Team) > 1 THEN row.Team[2] ELSE "N/A",
                     Prop_Type |-> row.Prop,
                     FanDuel_Line |-> row.FD.halves,
                     PrizePicks_Line |-> row.PP.halves,
                     Line_Diff |-> Abs(row.FD.halves - row.PP.halves),
                     Bet_Direction |-> side,
                     Fair_Win_Pct |-> fair_prob]>>
    ELSE <<>>

\* the iteration as it would be without the except clause of lines 137-138
ExtractRowUncaught(row) == row_try(row)

\* except Exception: continue; <<>> or the one Candidate of the row
ExtractRow(row) ==
    LET out == row_try(row)
    IN  IF Raised(out) THEN <<>> ELSE out

(***************************************************************************)
(* Means of percentages as the program computes them.                      *)
(***************************************************************************)
\* every percentage a search table of the model holds, and every threshold
PctRange ==
    UNION {UNION {{t[i].FairOver, t[i].FairUnder} : i \in DOMAIN t} :
              t \in Tables \cup CutTables}
        \cup UNION {{THRESHOLDS[st][k] : k \in DOMAIN THRESHOLDS[st]} :
                       st \in DOMAIN THRESHOLDS}
        \cup {default_threshold}

\* float(cell) for a cell with n hundredths; a THRESHOLDS literal
PctF64 == [n \in PctRange |-> F64OfPct(n)]

\* sum() of the interpreter the application runs on is compensated: CPython
\* 3.12 and later (FALSE: CPython up to 3.11)
VARIABLE compensated

\* sum([...]) up to CPython 3.11: the floats added left to right, starting
\* from the integer 0
RECURSIVE SumLeft(_, _, _)
SumLeft(pcts, i, acc) ==
    IF i > Len(pcts) THEN acc
    ELSE CHOOSE out \in {SumLeft(pcts, i + 1, a) :
                         a \in {F64Add(acc, PctF64[pcts[i]])}} : TRUE

\* a binary64 of either sign, v its magnitude
F64Signed(neg, v) == [neg |-> neg, v |-> v]

\* a + b of two signed values, rounded to nearest, ties to even
F64SignedAdd(a, b) ==
    CHOOSE out \in
        {IF x.neg = y.neg THEN F64Signed(x.neg, F64Add(x.v, y.v))
         ELSE IF F64Lt(x.v, y.v) THEN F64Signed(y.neg, F64Sub(y.v, x.v))
         ELSE F64Signed(x.neg, F64Sub(x.v, y.v)) :
         x \in {a}, y \in {b}} : TRUE

\* one step of the compensated sum of CPython 3.12 and later, for floats
\* that are not negative: st is <<f_result, c>>, x the next float;
\*   t = f_result + x
\*   c += (f_result - t) + x  if fabs(f_result) >= fabs(x)
\*   c += (x - t) + f_result  otherwise
\*   f_result = t
CsAdd(st, x) ==
    CHOOSE out \in
        {LET big   == IF F64Le(x, st[1]) THEN st[1] ELSE x
             small == IF F64Le(x, st[1]) THEN x ELSE st[1]
             d     == F64SignedAdd(F64Signed(TRUE, F64Sub(t, big)),
                                   F64Signed(FALSE, small))
         IN  <<t, F64SignedAdd(st[2], d)>> :
         t \in {F64Add(st[1], x)}} : TRUE

\* if (c && isfinite(c)) f_result += c
CsToDouble(st) ==
    IF F64IsZero(st[2].v) THEN st[1]
    ELSE F64SignedAdd(F64Signed(FALSE, st[1]), st[2]).v

RECURSIVE SumCompensated(_, _, _)
SumCompensated(pcts, i, st) ==
    IF i > Len(pcts) THEN CsToDouble(st)
    ELSE CHOOSE out \in {SumCompensated(pcts, i + 1, s) :
                         s \in {CsAdd(st, PctF64[pcts[i]])}} : TRUE

\* sum([...]) of a list of floats that are not negative: the integer 0 and
\* the first float give the first float
SumF64(pcts) ==
    IF pcts = <<>> THEN F64Zero
    ELSE IF compensated
    THEN SumCompensated(pcts, 2, <<PctF64[pcts[1]], F64Signed(FALSE, F64Zero)>>)
    ELSE SumLeft(pcts, 1, F64Zero)

\* sum(Fair_Win_Pct of the legs) / n, for n # 0 (lines 221, 254)
MeanF64(legs, n) ==
    F64Div(SumF64([i \in 1..Len(legs) |-> legs[i].Fair_Win_Pct]), F64OfInt(n))

\* (leg1["Fair_Win_Pct"] + leg2["Fair_Win_Pct"]) / 2 (line 186)
PairMeanF64(leg1, leg2) ==
    F64Div(F64Add(PctF64[leg1.Fair_Win_Pct], PctF64[leg2.Fair_Win_Pct]),
           F64OfInt(2))

\* avg_win_pct <= threshold is false
AboveThreshold(avg, thr) == F64Lt(PctF64[thr], avg)

\* THRESHOLDS.get(style, {}).get(target_size, 54.21)
Threshold(st, size) ==
    IF st \in DOMAIN THRESHOLDS /\ size \in DOMAIN THRESHOLDS[st]
    THEN THRESHOLDS[st][size]
    ELSE default_threshold

(***************************************************************************)
(* list.sort(key=..., reverse=True): descending, equal keys keep their     *)
(* order.                                                                  *)
(***************************************************************************)
\* seq.sort(key=lambda x: x[key], reverse=True)
\* the places the elements lo..hi of seq go to, one after the other: an
\* element goes behind those of greater key and those of equal key that were
\* before it
RECURSIVE SortPlaces(_, _, _, _)
SortPlaces(seq, key, lo, hi) ==
    IF lo > hi THEN <<>>
    ELSE IF lo = hi
    THEN <<1 + Cardinality({j \in 1..Len(seq) :
                               \/ seq[j][key] > seq[lo][key]
                               \/ seq[j][key] = seq[lo][key] /\ j < lo})>>
    ELSE SortPlaces(seq, key, lo, (lo + hi) \div 2)
             \o SortPlaces(seq, key, ((lo + hi) \div 2) + 1, hi)

StableSortDesc(seq, key) ==
    LET n     == Len(seq)
        place == SortPlaces(seq, key, 1, n)
        at    == [p \in 1..n |-> CHOOSE i \in 1..n : place[i] = p]
    IN  [p \in 1..n |-> seq[at[p]]]

\* pool.sort(key=lambda x: x["Fair_Win_Pct"], reverse=True)
SortPool(p) == StableSortDesc(p, "Fair_Win_Pct")

\* the sort as it would be done by an ascending sort and a reversal of the
\* list, which turns the order of equal keys around
SortSlipsThenReverse(sl) ==
    LET n   == Len(sl)
        Up(seq) == LET rev == [i \in 1..n |-> seq[n + 1 - i]]
                       dn  == StableSortDesc(rev, "Avg_Win_Pct")
                   IN  [i \in 1..n |-> dn[n + 1 - i]]
        asc == Up(sl)
    IN  [i \in 1..n |-> asc[n + 1 - i]]

\* all_valid_slips.sort(key=lambda x: x["Avg_Win_Pct"], reverse=True)
SortSlips(sl) == StableSortDesc(sl, "Avg_Win_Pct")

(***************************************************************************)
(* Slips.  Is_Fallback is a key of the single-prop entries only; FALSE     *)
(* stands for its absence.  Leg_Ids is a set until the function returns.   *)
(* The Total_Edge of a single-prop entry is its leg's Edge, a presentation *)
(* field, and is left out.                                                 *)
(***************************************************************************)
LegIds(legs) == {legs[i].id : i \in 1..Len(legs)}

\* the edge as it would be taken from the rounded mean
TotalEdgeOfStored(avg, thr) == Round2(avg) - thr

\* round(avg_win_pct - threshold, 2), for avg_win_pct above the threshold
TotalEdge(avg, thr) ==
    CHOOSE out \in {Round2(d) : d \in {F64Sub(avg, PctF64[thr])}} : TRUE

MakeSlip(legs, avg, thr) ==
    CHOOSE slip \in
        {[Avg_Win_Pct |-> Round2(a), Total_Edge |-> TotalEdge(a, thr),
          Legs |-> legs, Leg_Ids |-> LegIds(legs), Is_Fallback |-> FALSE] :
         a \in {avg}} : TRUE

\* CASE 1 (lines 147-159): the single-prop view
PropSlip(prop) ==
    [Avg_Win_Pct |-> prop.Fair_Win_Pct, Legs |-> <<prop>>, Leg_Ids |-> {prop.id},
     Is_Fallback |-> TRUE]

\* the view as it would be without the slice of line 149
SinglePropSlipsUncut(sorted_pool) ==
    [i \in 1..Len(sorted_pool) |-> PropSlip(sorted_pool[i])]

SinglePropSlips(sorted_pool) ==
    LET n == IF Len(sorted_pool) < top_props_count THEN Len(sorted_pool)
             ELSE top_props_count
    IN  [i \in 1..n |-> PropSlip(sorted_pool[i])]

(***************************************************************************)
(* STRATEGY 1 (lines 173-205): one iteration of the pairing loop.          *)
(***************************************************************************)
\* the checks as they would be with < for <= at line 187
PairOkAtOrAbove(leg1, leg2, thr) ==
    /\ F64Le(PctF64[thr], PairMeanF64(leg1, leg2))
    /\ leg1.Team # leg2.Team

\* leg2 passes both checks of the reverse scan
PairOk(leg1, leg2, thr) ==
    /\ AboveThreshold(PairMeanF64(leg1, leg2), thr)
    /\ leg1.Team # leg2.Team

\* the scan as it would be from the top of the list down
FindPartnerFromTop(leg1, rest, thr) ==
    LET ok == {i \in 1..Len(rest) : PairOk(leg1, rest[i], thr)}
    IN  IF ok = {} THEN 0 ELSE CHOOSE i \in ok : \A j \in ok : j >= i

\* the scan as it would be if it tested the last candidate of the list only
FindPartnerLastOnly(leg1, rest, thr) ==
    IF rest # <<>> /\ PairOk(leg1, rest[Len(rest)], thr) THEN Len(rest) ELSE 0

\* the scan of line 182 from the index i down: the index it stops at, 0 when
\* it finds none
RECURSIVE ScanDown(_, _, _, _)
ScanDown(leg1, rest, thr, i) ==
    IF i = 0 THEN 0
    ELSE IF PairOk(leg1, rest[i], thr) THEN i
    ELSE ScanDown(leg1, rest, thr, i - 1)

\* the index in rest the scan from the end stops at, 0 when it finds none
FindPartner(leg1, rest, thr) == ScanDown(leg1, rest, thr, Len(rest))

RemoveAt(seq, i) == SubSeq(seq, 1, i - 1) \o SubSeq(seq, i + 1, Len(seq))

(***************************************************************************)
(* STRATEGY 2 (lines 210-240): itertools.combinations in its order.        *)
(***************************************************************************)
\* the number of sets of k places out of n
RECURSIVE Binomial(_, _)
Binomial(n, k) ==
    IF k = 0 THEN 1
    ELSE IF n < k THEN 0
    ELSE (Binomial(n - 1, k - 1) * n) \div k

\* the checks after the mean as they would be without the test of the teams
\* (lines 230-231)
DiverseOkAnyTeams(combo, size) ==
    Cardinality({combo[i].Player : i \in 1..Len(combo)}) = size

\* the checks after the mean (lines 225-231, 258-261)
DiverseOk(combo, size) ==
    /\ Cardinality({combo[i].Player : i \in 1..Len(combo)}) = size
    /\ Cardinality({combo[i].Team : i \in 1..Len(combo)}) >= 2

\* the players of the legs at the places c of the pool are pairwise distinct
DistinctPlayers(p, c) ==
    \A a, b \in 1..Len(c) : a # b => p[c[a]].Player # p[c[b]].Player

\* the state of the loop: all_valid_slips, limit_check, and whether the loop
\* has been left by a break
LoopStart == [slips |-> <<>>, limit_check |-> 0, broke |-> FALSE]

\* one iteration of the loop, for the combination at the places c of the
\* pool (lines 218-240)
BruteIter(p, c, size, thr, st) ==
    IF st.limit_check + 1 > limit_check_max
    THEN [st EXCEPT !.limit_check = st.limit_check + 1, !.broke = TRUE]
    ELSE LET combo == [j \in 1..size |-> p[c[j]]]
             avg   == MeanF64(combo, size)
         IN  IF DiverseOk(combo, size) /\ AboveThreshold(avg, thr)
             THEN CHOOSE out \in
                      {[slips |-> k2, limit_check |-> st.limit_check + 1,
                        broke |-> Len(k2) >= max_slips] :
                          k2 \in {Append(st.slips, MakeSlip(combo, avg, thr))}} : TRUE
             ELSE [st EXCEPT !.limit_check = st.limit_check + 1]

\* the iterations as they would be without the break of line 219
BruteSkipUnbounded(n, st) == [st EXCEPT !.limit_check = st.limit_check + n]

\* n iterations in a row, each for a combination that holds two legs of one
\* player: each adds 1 to limit_check and goes on to the next at line 223
\* or line 226, up to the break of line 219
BruteSkip(n, st) ==
    IF st.limit_check + n > limit_check_max
    THEN [st EXCEPT !.limit_check = limit_check_max + 1, !.broke = TRUE]
    ELSE [st EXCEPT !.limit_check = st.limit_check + n]

\* the iterations of the loop for the combinations that begin with the places
\* c and go on with a place of lo..hi, in the order of
\* itertools.combinations.  The combinations that begin with two legs of one
\* player are taken in one step: each of them is counted and turned down.
RECURSIVE BruteLoop(_, _, _, _, _, _, _)
BruteLoop(p, c, lo, hi, size, thr, st) ==
    IF st.broke \/ lo > hi THEN st
    ELSE IF lo < hi
    THEN CHOOSE out \in
             {BruteLoop(p, c, ((lo + hi) \div 2) + 1, hi, size, thr, s1) :
                 s1 \in {BruteLoop(p, c, lo, (lo + hi) \div 2, size, thr, st)}} : TRUE
    ELSE LET c2   == Append(c, lo)
             rest == size - Len(c2)
         IN  IF rest = 0 THEN BruteIter(p, c2, size, thr, st)
             ELSE IF DistinctPlayers(p, c2)
             THEN BruteLoop(p, c2, lo + 1, Len(p) - rest + 1, size, thr, st)
             ELSE BruteSkip(Binomial(Len(p) - lo, rest), st)

\* the loop over itertools.combinations(pool, target_size), for
\* target_size > 0
BruteForce(p, size, thr) ==
    BruteLoop(p, <<>>, 1, Len(p) - size + 1, size, thr, LoopStart)

(***************************************************************************)
(* STRATEGY 3 (lines 243-269): random.sample(pool, target_size) is some    *)
(* arrangement of target_size distinct positions of the pool.              *)
(***************************************************************************)
Samples(n, k) ==
    {s \in [1..k -> 1..n] : \A a, b \in 1..k : a # b => s[a] # s[b]}

\* one iteration of the loop whose random.sample returns the places s of the
\* pool p (lines 254-269): slips is all_valid_slips before it, the value is
\* all_valid_slips after it
SamplingIter(p, s, size, thr, slips) ==
    LET combo == [j \in 1..size |-> p[s[j]]]
    IN  CHOOSE out \in
            {IF AboveThreshold(avg, thr) /\ DiverseOk(combo, size)
             THEN Append(slips, MakeSlip(combo, avg, thr))
             ELSE slips : avg \in {MeanF64(combo, size)}} : TRUE

\* all_valid_slips after an iteration begun with the empty list, for every
\* arrangement random.sample can return: <<>> where the iteration goes on
\* to the next at one of its continue statements, the slip alone where it
\* appends it
SamplingOutcomes(p, size, thr) ==
    {SamplingIter(p, s, size, thr, <<>>) : s \in Samples(Len(p), size)}

\* the lists over the set A in which no element comes twice
NoRepeat(A) ==
    UNION {{q \in [1..k -> A] : \A a, b \in 1..k : a # b => q[a] # q[b]} :
              k \in 0..Cardinality(A)}

\* the outcomes of random.sample are inputs of the loop, one arrangement in
\* each of its `iterations` iterations, and an arrangement drawn again
\* appends an equal slip again.  The slips the whole loop appends, each at
\* the place of its first appearance, whatever it drew, given the outcomes
\* outs of one iteration: any slips of outs in any order; none at all only
\* if some arrangement is turned down, as every iteration draws one
FirstAppended(outs) ==
    {q \in NoRepeat({l[1] : l \in outs \ {<<>>}}) :
        /\ Len(q) <= iterations
        /\ q = <<>> => <<>> \in outs}

(***************************************************************************)
(* State.                                                                  *)
(*   table            the concatenated rows of props/*_props_*.csv         *)
(*   compensated      (declared with the sums) the interpreter's sum()     *)
(*   pc               where the request stands                             *)
(*   style, target_size   the arguments get_slips was called with          *)
(*   row_i            the row the extractor's loop is at                   *)
(*   candidates       the pool (pool = candidates is the same list)        *)
(*   threshold, search_pool, all_valid_slips, final_slips, used_prop_ids   *)
(*                    the locals of get_slips of those names; of the list  *)
(*                    the Monte Carlo loop leaves, all_valid_slips holds   *)
(*                    each slip once, at the place of its first appearance *)
(*   limit_check      the counter of the loop over the combinations        *)
(*   trials           Monte Carlo iterations run to their end              *)
(*   rank_i           the slip of all_valid_slips the ranker's loop is at  *)
(*   raw_slips        history: all_valid_slips as the search left it,      *)
(*                    before the sort in place                             *)
(*   result           the list returned                                    *)
(*   error            the exception the request ended with, "" for none    *)
(*   over_odds, under_odds, novig   a call of calculate_novig and what it  *)
(*                    returned (<<>> before it returns)                    *)
(***************************************************************************)
VARIABLES table, pc, style, target_size, row_i, candidates, threshold,
          search_pool, all_valid_slips, limit_check, trials, rank_i,
          final_slips, used_prop_ids, raw_slips, result, error,
          over_odds, under_odds, novig

nvars == <<over_odds, under_odds, novig>>

svars == <<threshold, search_pool, all_valid_slips, limit_check, trials, rank_i,
           final_slips, used_prop_ids, raw_slips>>

gvars == <<table, compensated, pc, style, target_size, row_i, candidates, svars, result, error>>

vars == <<gvars, nvars>>

pool == candidates

Idle ==
    /\ pc = "idle" /\ style = "" /\ target_size = 0 /\ row_i = 0
    /\ candidates = <<>> /\ threshold = 0 /\ search_pool = <<>>
    /\ all_valid_slips = <<>> /\ limit_check = 0 /\ trials = 0 /\ rank_i = 0
    /\ final_slips = <<>> /\ used_prop_ids = {} /\ raw_slips = <<>>
    /\ result = <<>> /\ error = ""

NoCall == over_odds = 0 /\ under_odds = 0 /\ novig = <<>>

\* the interpreter is one with either sum()
Interpreter == compensated \in BOOLEAN

\* the application is up and the props files are on disk
Init == table \in Tables /\ Interpreter /\ Idle /\ NoCall

(***************************************************************************)
(* dashboard (lines 295-308) up to its call of get_slips, and get_slips up *)
(* to the loop over the rows (lines 52-80).                                *)
(***************************************************************************)
Dashboard(style_arg, size_arg) ==
    /\ pc = "idle"
    /\ LET size == IF size_arg.numeric THEN size_arg.n ELSE fallback_size
           st   == IF style_arg \notin {"power", "flex", "props"} THEN "power"
                   ELSE style_arg
       IN  /\ target_size' = size
           /\ style' = IF size = 1 THEN "props" ELSE st
    /\ pc' = "rows"
    /\ row_i' = 1
    /\ candidates' = <<>>
    /\ UNCHANGED <<table, compensated, svars, result, error, nvars>>

\* one iteration of the loop over all_props.iterrows() (lines 82-138)
ExtractStep ==
    /\ pc = "rows"
    /\ row_i <= Len(table)
    /\ LET out == ExtractRow(table[row_i])
       IN  IF Raised(out)
           THEN /\ error' = out[2]
                /\ pc' = "raised"
                /\ UNCHANGED <<candidates, row_i>>
           ELSE /\ candidates' = candidates \o out
                /\ row_i' = row_i + 1
                /\ UNCHANGED <<pc, error>>
    /\ UNCHANGED <<table, compensated, style, target_size, svars, result, nvars>>

\* if not candidates: return [] (lines 140-141)
EmptyPool ==
    /\ pc = "rows"
    /\ row_i > Len(table)
    /\ candidates = <<>>
    /\ result' = <<>>
    /\ pc' = "done"
    /\ UNCHANGED <<table, compensated, style, target_size, row_i, candidates, svars, error, nvars>>

\* CASE 1 (lines 147-159)
SinglePropView ==
    /\ pc = "rows"
    /\ row_i > Len(table)
    /\ candidates # <<>>
    /\ target_size = 1
    /\ candidates' = SortPool(pool)
    /\ all_valid_slips' = SinglePropSlips(SortPool(pool))
    /\ result' = all_valid_slips'
    /\ pc' = "done"
    /\ UNCHANGED <<table, compensated, style, target_size, row_i, threshold, search_pool,
                   limit_check, trials, rank_i, final_slips, used_prop_ids, raw_slips,
                   error, nvars>>

\* lines 162-174: the threshold, the sort of the pool, the choice of strategy
StartSearch ==
    /\ pc = "rows"
    /\ row_i > Len(table)
    /\ candidates # <<>>
    /\ target_size # 1
    /\ threshold' = Threshold(style, target_size)
    /\ candidates' = SortPool(pool)
    /\ IF target_size = 2 /\ style = "power"
       THEN pc' = "pairing" /\ search_pool' = candidates'
       ELSE /\ pc' = IF target_size >= monte_carlo_size THEN "sampling" ELSE "combos"
            /\ UNCHANGED search_pool
    /\ UNCHANGED <<table, compensated, style, target_size, row_i, all_valid_slips,
                   limit_check, trials,
                   rank_i, final_slips, used_prop_ids, raw_slips, result, error,
                   nvars>>

\* the iteration as it would be if a leg1 without a partner went back to the
\* end of the pool
PairingStepRetries ==
    /\ pc = "pairing"
    /\ Len(search_pool) >= 2
    /\ LET leg1 == Head(search_pool)
           rest == Tail(search_pool)
           i    == FindPartner(leg1, rest, threshold)
       IN  IF i = 0
           THEN search_pool' = Append(rest, leg1) /\ UNCHANGED all_valid_slips
           ELSE /\ all_valid_slips' =
                       Append(all_valid_slips,
                              MakeSlip(<<leg1, rest[i]>>, PairMeanF64(leg1, rest[i]),
                                       threshold))
                /\ search_pool' = RemoveAt(rest, i)
    /\ UNCHANGED <<table, compensated, pc, style, target_size, row_i, candidates, threshold,
                   limit_check, trials, rank_i, final_slips, used_prop_ids, raw_slips,
                   result, error, nvars>>

\* one iteration of while len(search_pool) >= 2 (lines 175-205)
PairingStep ==
    /\ pc = "pairing"
    /\ Len(search_pool) >= 2
    /\ LET leg1 == Head(search_pool)
           rest == Tail(search_pool)
       IN  \E i \in {FindPartner(leg1, rest, threshold)} :
           IF i = 0
           THEN search_pool' = rest /\ UNCHANGED all_valid_slips
           ELSE /\ all_valid_slips' =
                       Append(all_valid_slips,
                              MakeSlip(<<leg1, rest[i]>>, PairMeanF64(leg1, rest[i]),
                                       threshold))
                /\ search_pool' = RemoveAt(rest, i)
    /\ UNCHANGED <<table, compensated, pc, style, target_size, row_i, candidates, threshold,
                   limit_check, trials, rank_i, final_slips, used_prop_ids, raw_slips,
                   result, error, nvars>>

PairingEnd ==
    /\ pc = "pairing"
    /\ Len(search_pool) < 2
    /\ pc' = "rank"
    /\ UNCHANGED <<table, compensated, style, target_size, row_i, candidates, svars, result,
                   error, nvars>>

\* itertools.combinations(pool, r) raises ValueError for r < 0 (line 212);
\* for r = 0 its one empty combination divides 0 by 0 (line 221)
CombosRaise ==
    /\ pc = "combos"
    /\ target_size <= 0
    /\ error' = IF target_size < 0 THEN "ValueError" ELSE "ZeroDivisionError"
    /\ pc' = "raised"
    /\ UNCHANGED <<table, compensated, style, target_size, row_i, candidates, svars, result, nvars>>

\* the loop over the combinations (lines 212-240)
CombosSearch ==
    /\ pc = "combos"
    /\ target_size > 0
    /\ \E st \in {BruteForce(pool, target_size, threshold)} :
           /\ all_valid_slips' = st.slips
           /\ limit_check' = st.limit_check
    /\ pc' = "rank"
    /\ UNCHANGED <<table, compensated, style, target_size, row_i, candidates, threshold,
                   search_pool, trials, rank_i, final_slips, used_prop_ids,
                   raw_slips, result, error, nvars>>

\* the loop of lines 248-269 on a pool that random.sample can draw from: all
\* of its `iterations` iterations, with any arrangement drawn in each.  The
\* list it leaves has a slip for every iteration that appended one, equal
\* slips for equal arrangements; all_valid_slips holds that list without
\* the repeats of a slip that is in it before.
SamplingSearch ==
    /\ pc = "sampling"
    /\ trials < iterations
    /\ Len(pool) >= target_size
    /\ all_valid_slips' \in
           FirstAppended(SamplingOutcomes(pool, target_size, threshold))
    /\ trials' = iterations
    /\ pc' = "rank"
    /\ UNCHANGED <<table, compensated, style, target_size, row_i, candidates, threshold,
                   search_pool, limit_check, rank_i, final_slips, used_prop_ids, raw_slips,
                   result, error, nvars>>

\* the step as it would be without the try of lines 249-252
SamplingBreakRaises ==
    /\ pc = "sampling"
    /\ trials < iterations
    /\ Len(pool) < target_size
    /\ error' = "ValueError"
    /\ pc' = "raised"
    /\ UNCHANGED <<table, compensated, style, target_size, row_i, candidates, svars, result, nvars>>

\* random.sample raises ValueError: break (lines 251-252)
SamplingBreak ==
    /\ pc = "sampling"
    /\ trials < iterations
    /\ Len(pool) < target_size
    /\ pc' = "rank"
    /\ UNCHANGED <<table, compensated, style, target_size, row_i, candidates, svars, result,
                   error, nvars>>

\* lines 272-278: the sort in place, the empty final list
RankSort ==
    /\ pc = "rank"
    /\ raw_slips' = all_valid_slips
    /\ all_valid_slips' = SortSlips(all_valid_slips)
    /\ final_slips' = <<>>
    /\ used_prop_ids' = {}
    /\ rank_i' = 1
    /\ pc' = "walk"
    /\ UNCHANGED <<table, compensated, style, target_size, row_i, candidates, threshold,
                   search_pool, limit_check, trials, result, error, nvars>>

\* the walk has left its loop: the list is used up, or the break of line 287
WalkOver ==
    \/ rank_i > Len(all_valid_slips)
    \/ Len(final_slips) >= limit

\* RankStep as it would be without the test of line 282
RankStepNoOverlapTest ==
    /\ pc = "walk"
    /\ ~WalkOver
    /\ LET slip == all_valid_slips[rank_i]
       IN  /\ final_slips' = Append(final_slips, slip)
           /\ used_prop_ids' = used_prop_ids \cup slip.Leg_Ids
    /\ rank_i' = rank_i + 1
    /\ UNCHANGED <<table, compensated, pc, style, target_size, row_i, candidates, threshold,
                   search_pool, all_valid_slips, limit_check, trials, raw_slips, result,
                   error, nvars>>

\* RankStep as it would be if line 282 tested a slip against the ids of the
\* slip accepted last instead of the ids of all the slips accepted
RankStepLastOnly ==
    /\ pc = "walk"
    /\ ~WalkOver
    /\ LET slip == all_valid_slips[rank_i]
           last == IF final_slips = <<>> THEN {}
                   ELSE final_slips[Len(final_slips)].Leg_Ids
       IN  IF slip.Leg_Ids \cap last = {}
           THEN /\ final_slips' = Append(final_slips, slip)
                /\ used_prop_ids' = used_prop_ids \cup slip.Leg_Ids
           ELSE UNCHANGED <<final_slips, used_prop_ids>>
    /\ rank_i' = rank_i + 1
    /\ UNCHANGED <<table, compensated, pc, style, target_size, row_i, candidates, threshold,
                   search_pool, all_valid_slips, limit_check, trials, raw_slips, result,
                   error, nvars>>

\* one iteration of for slip in all_valid_slips (lines 279-287).  The
\* iterations at the repeats the Monte Carlo loop left in the list change
\* nothing: a repeat has the ids of the slip it repeats, which are in
\* used_prop_ids if that slip was accepted, and meet the ids for which that
\* slip was turned down if it was not
RankStep ==
    /\ pc = "walk"
    /\ ~WalkOver
    /\ LET slip == all_valid_slips[rank_i]
       IN  IF slip.Leg_Ids \cap used_prop_ids = {}
           THEN /\ final_slips' = Append(final_slips, slip)
                /\ used_prop_ids' = used_prop_ids \cup slip.Leg_Ids
           ELSE UNCHANGED <<final_slips, used_prop_ids>>
    /\ rank_i' = rank_i + 1
    /\ UNCHANGED <<table, compensated, pc, style, target_size, row_i, candidates, threshold,
                   search_pool, all_valid_slips, limit_check, trials, raw_slips, result,
                   error, nvars>>

\* lines 289-293
RankReturn ==
    /\ pc = "walk"
    /\ WalkOver
    /\ result' = final_slips
    /\ pc' = "done"
    /\ UNCHANGED <<table, compensated, style, target_size, row_i, candidates, svars, error, nvars>>

\* the extractor's specification: a request up to the end of the loop over
\* the rows
InitExtract == table \in ExtractTables /\ Interpreter /\ Idle /\ NoCall

NextExtract ==
    \/ \E st \in StyleArgs, sz \in SizeArgs : Dashboard(st, sz)
    \/ ExtractStep

SpecExtract == InitExtract /\ [][NextExtract]_vars

\* the single prop view's specification: requests of size 1
InitProps == table \in PropTables /\ Interpreter /\ Idle /\ NoCall

NextProps ==
    \/ \E st \in StyleArgs : Dashboard(st, [numeric |-> TRUE, n |-> 1])
    \/ ExtractStep
    \/ EmptyPool
    \/ SinglePropView

SpecProps == InitProps /\ [][NextProps]_vars

\* the normalizer's specification: one call of calculate_novig
InitNovig ==
    /\ table = <<>> /\ Interpreter /\ Idle
    /\ over_odds \in Odds /\ under_odds \in Odds /\ novig = <<>>

CalculateNovig ==
    /\ novig = <<>>
    /\ novig' = calculate_novig(over_odds, under_odds)
    /\ UNCHANGED <<gvars, over_odds, under_odds>>

NextNovig == CalculateNovig

SpecNovig == InitNovig /\ [][NextNovig]_vars

Next ==
    \/ \E st \in StyleArgs, sz \in SizeArgs : Dashboard(st, sz)
    \/ ExtractStep
    \/ EmptyPool
    \/ SinglePropView
    \/ StartSearch
    \/ PairingStep
    \/ PairingEnd
    \/ CombosRaise
    \/ CombosSearch
    \/ SamplingBreak
    \/ SamplingSearch
    \/ RankSort
    \/ RankStep
    \/ RankReturn

Spec == Init /\ [][Next]_vars

\* the pairing loop's specification: requests of size 2 and style power; a
\* running loop goes on to its next iteration and leaves when its test fails
InitPairing == table \in PairTables /\ Interpreter /\ Idle /\ NoCall

NextPairing ==
    \/ Dashboard("power", [numeric |-> TRUE, n |-> 2])
    \/ ExtractStep
    \/ EmptyPool
    \/ StartSearch
    \/ PairingStep
    \/ PairingEnd
    \/ RankSort
    \/ RankStep
    \/ RankReturn

SpecPairing ==
    InitPairing /\ [][NextPairing]_vars /\ WF_vars(PairingStep) /\ WF_vars(PairingEnd)

\* the specification of the caps: requests of the sizes 2 to 4, which the
\* pairing loop and the loop over the combinations serve, on no rows and on
\* the wide tables, the table of seven rows, and the large tables each with
\* the requests that run into its cap (the tables of the cut with those of
\* size 4).  The pairing loop calls no sum(): the table of the ranker's cap
\* is taken with one interpreter.
InitLarge ==
    /\ table \in {<<>>} \cup WideTables \cup {WalkTable} \cup LargeTables
    /\ Interpreter /\ (table = RankCapTable => ~compensated)
    /\ Idle /\ NoCall

Requested(st, sz) ==
    \/ table \notin LargeTables
    \/ table = RankCapTable /\ st = "power" /\ sz = 2
    \/ table = BruteCapTable /\ st = "flex" /\ sz = 3
    \/ table \in CutTables /\ st \in {"power", "flex"} /\ sz = 4

NextLarge ==
    \/ \E st \in StyleArgs, sz \in 2..(monte_carlo_size - 1) :
           Requested(st, sz) /\ Dashboard(st, [numeric |-> TRUE, n |-> sz])
    \/ ExtractStep
    \/ EmptyPool
    \/ StartSearch
    \/ PairingStep
    \/ PairingEnd
    \/ CombosSearch
    \/ RankSort
    \/ RankStep
    \/ RankReturn

SpecLarge == InitLarge /\ [][NextLarge]_vars

(***************************************************************************)
(* Properties.                                                             *)
(***************************************************************************)
\* no id is in the Leg_Ids of two entries of the list
Disjoint(slips) ==
    \A i, j \in 1..Len(slips) : i # j => slips[i].Leg_Ids \cap slips[j].Leg_Ids = {}

\* two rows of the table share player and prop type
SharedIdRows ==
    \E i, j \in DOMAIN table :
        i # j /\ table[i].Player = table[j].Player /\ table[i].Prop = table[j].Prop

\* C1 as stated: for every request, size 1 included, no Candidate id is in
\* the Leg_Ids of more than one entry of the list get_slips returns.
C1_DisjointEveryRequest == pc = "done" => Disjoint(result)

\* C1 amended: for every request of a size other than 1, whose list comes
\* from the ranker, no Candidate id is in the Leg_Ids of more than one slip
\* of the list get_slips returns.
C1_DisjointRanked == (pc = "done" /\ target_size # 1) => Disjoint(result)

\* a ranked list of two slips, from a table with two rows of one player and
\* prop type, for which the ranker turned an overlapping slip down
C1_Witness ==
    /\ pc = "done" /\ target_size # 1
    /\ SharedIdRows
    /\ Len(result) >= 2
    /\ Len(raw_slips) > Len(result)

\* C2 as stated: for every request of size 2 and more, every slip of the
\* returned list has a stored Avg_Win_Pct (the mean rounded to 2 decimal
\* places) strictly greater than the threshold of (style, size), the default
\* 54.21 when the table has none.
C2_StoredAboveThreshold ==
    (pc = "done" /\ target_size >= 2) =>
        \A i \in 1..Len(result) :
            result[i].Avg_Win_Pct > Threshold(style, target_size)

\* C2 amended: for every request of size 2 and more, every slip of the
\* returned list has a mean of its legs' Fair_Win_Pct, as the program
\* computes it in binary floating point, strictly greater than the threshold
\* of (style, size); its stored Avg_Win_Pct is that mean rounded to 2 decimal
\* places and is greater than or equal to the threshold (it is the
\* threshold for the legs 57.76 and 57.73 at the threshold 57.74).
C2_MeanAboveThreshold ==
    (pc = "done" /\ target_size >= 2) =>
        \A i \in 1..Len(result) :
            LET mean == MeanF64(result[i].Legs, target_size)
                thr  == Threshold(style, target_size)
            IN  /\ F64Lt(PctF64[thr], mean)
                /\ result[i].Avg_Win_Pct = Round2(mean)
                /\ result[i].Avg_Win_Pct >= thr
                /\ (/\ target_size = 2 /\ thr = 5774
                    /\ {result[i].Legs[k].Fair_Win_Pct : k \in 1..2} = {5773, 5776})
                       => result[i].Avg_Win_Pct = thr

\* a returned slip of two legs at 57.73 and 57.76 whose stored Avg_Win_Pct
\* is the threshold 57.74
PairAtThreshold ==
    /\ pc = "done" /\ target_size = 2
    /\ \E i \in 1..Len(result) :
           /\ result[i].Avg_Win_Pct = Threshold(style, target_size)
           /\ {result[i].Legs[k].Fair_Win_Pct : k \in 1..2} = {5773, 5776}

\* a request of 5 or 6 legs has returned a slip of the Monte Carlo loop, the
\* ranker having turned another one down for the ids they share
SampledReturned ==
    /\ pc = "done" /\ target_size >= monte_carlo_size
    /\ result # <<>> /\ Len(raw_slips) > Len(result)

\* a returned slip of the Monte Carlo loop whose stored Avg_Win_Pct is the
\* threshold itself
C2_Witness ==
    /\ pc = "done" /\ target_size >= monte_carlo_size
    /\ \E i \in 1..Len(result) :
           result[i].Avg_Win_Pct = Threshold(style, target_size)

\* C3: for size 2 and more, under every search strategy, every slip the
\* search produces has pairwise distinct player names among its legs and
\* legs on at least 2 distinct teams.
C3_SlipsValid ==
    target_size >= 2 =>
        \A i \in 1..Len(all_valid_slips) :
            LET legs == all_valid_slips[i].Legs
            IN  /\ \A a, b \in 1..Len(legs) : a # b => legs[a].Player # legs[b].Player
                /\ \E a, b \in 1..Len(legs) : legs[a].Team # legs[b].Team

\* the Avg_Win_Pct of a list never goes up
NonIncreasing(slips) ==
    \A i \in 1..Len(slips) - 1 : slips[i].Avg_Win_Pct >= slips[i + 1].Avg_Win_Pct

\* the slips of a list with Avg_Win_Pct k, in their order
WithAvg(slips, k) ==
    LET Test(sl) == sl.Avg_Win_Pct = k
    IN  SelectSeq(slips, Test)

\* a from its i-th element on is a subsequence of b from its j-th on
RECURSIVE IsSubseqFrom(_, _, _, _)
IsSubseqFrom(a, i, b, j) ==
    IF i > Len(a) THEN TRUE
    ELSE IF j > Len(b) THEN FALSE
    ELSE IF a[i] = b[j] THEN IsSubseqFrom(a, i + 1, b, j + 1)
    ELSE IsSubseqFrom(a, i, b, j + 1)

\* C4: the list get_slips returns is ordered by non-increasing Avg_Win_Pct,
\* and returned slips of equal Avg_Win_Pct are in the relative order they
\* have in the raw list the search produced.
C4_RankingOrder ==
    pc = "done" =>
        /\ NonIncreasing(result)
        /\ target_size # 1 =>
               \A i \in 1..Len(result) :
                   IsSubseqFrom(WithAvg(result, result[i].Avg_Win_Pct), 1,
                                WithAvg(raw_slips, result[i].Avg_Win_Pct), 1)

\* a ranked list with two slips of equal Avg_Win_Pct, the raw list having
\* held a slip between them that the ranker turned down
C4_Witness ==
    /\ pc = "done" /\ target_size # 1
    /\ \E i, j \in 1..Len(result) :
           /\ i < j /\ result[i].Avg_Win_Pct = result[j].Avg_Win_Pct
           /\ \E a, b, c \in 1..Len(raw_slips) :
                  /\ a < b /\ b < c
                  /\ raw_slips[a] = result[i] /\ raw_slips[c] = result[j]
                  /\ raw_slips[b].Avg_Win_Pct = result[i].Avg_Win_Pct

\* the loop over the rows is at a row
AtRow == pc = "rows" /\ row_i <= Len(table)

\* the Candidates a step appends to the pool
Appended == SubSeq(candidates', Len(candidates) + 1, Len(candidates'))

\* both line cells hold the text of a number
LinesNumeric(row) == row.FD.text = "" /\ row.PP.text = ""

\* C5: every Candidate the extractor puts in the pool comes from a row where
\* both book lines are present and numeric, has Line_Diff = |FanDuel line -
\* PrizePicks line| <= 0.5 (1 half) and Fair_Win_Pct strictly greater than
\* 53.5; a row with fair probability exactly 53.5 on both sides yields none.
C5_AdmissionFilter ==
    [][AtRow =>
        LET row == table[row_i]
        IN  /\ \A k \in 1..Len(Appended) :
                   /\ LinesNumeric(row)
                   /\ Appended[k].Line_Diff = Abs(row.FD.halves - row.PP.halves)
                   /\ Appended[k].Line_Diff <= 1
                   /\ Appended[k].Fair_Win_Pct > 5350
                   /\ Appended[k].Fair_Win_Pct \in {row.FairOver, row.FairUnder}
            /\ (row.FairOver = 5350 /\ row.FairUnder = 5350) => Appended = <<>>]_vars

\* the loop has passed a first row with 53.5 on both sides and lines 0.5
\* apart, which gave nothing, and a second row 0.5 apart at 53.51, which gave
\* the pool's one Candidate
C5_Witness ==
    /\ pc = "rows" /\ row_i = 3
    /\ LinesNumeric(table[1])
    /\ Abs(table[1].FD.halves - table[1].PP.halves) = 1
    /\ table[1].FairOver = 5350 /\ table[1].FairUnder = 5350
    /\ Len(candidates) = 1
    /\ candidates[1].Line_Diff = 1
    /\ candidates[1].Fair_Win_Pct = 5351

\* C9 as stated: each row yields at most one Candidate, whose direction is
\* the side with the greater fair probability (OVER when they are equal) and
\* whose Fair_Win_Pct is that side's probability, also for a row where both
\* sides exceed 53.5.
C9_StrongerSide ==
    [][AtRow =>
        LET row == table[row_i]
        IN  /\ Len(Appended) <= 1
            /\ \A k \in 1..Len(Appended) :
                   IF row.FairOver >= row.FairUnder
                   THEN /\ Appended[k].Bet_Direction = "OVER"
                        /\ Appended[k].Fair_Win_Pct = row.FairOver
                   ELSE /\ Appended[k].Bet_Direction = "UNDER"
                        /\ Appended[k].Fair_Win_Pct = row.FairUnder]_vars

\* C9 amended: each row yields at most one Candidate, whose direction is
\* OVER when the OVER fair probability exceeds 53.5 and UNDER otherwise, and
\* whose Fair_Win_Pct is that side's probability; this is the side with the
\* greater probability unless both sides exceed 53.5.
C9_OverFirst ==
    [][AtRow =>
        LET row == table[row_i]
        IN  /\ Len(Appended) <= 1
            /\ \A k \in 1..Len(Appended) :
                   /\ IF row.FairOver > 5350
                      THEN /\ Appended[k].Bet_Direction = "OVER"
                           /\ Appended[k].Fair_Win_Pct = row.FairOver
                      ELSE /\ Appended[k].Bet_Direction = "UNDER"
                           /\ Appended[k].Fair_Win_Pct = row.FairUnder
                   /\ (row.FairOver <= 5350 \/ row.FairUnder <= 5350) =>
                          /\ Appended[k].Fair_Win_Pct >= row.FairOver
                          /\ Appended[k].Fair_Win_Pct >= row.FairUnder]_vars

\* the loop has passed a row whose two sides both exceed 53.5, the UNDER side
\* the greater, and it gave an OVER Candidate
C9_Witness ==
    /\ pc = "rows" /\ row_i = 2
    /\ table[1].FairOver > 5350
    /\ table[1].FairUnder > table[1].FairOver
    /\ Len(candidates) = 1
    /\ candidates[1].Bet_Direction = "OVER"
    /\ candidates[1].Fair_Win_Pct = table[1].FairOver

\* C6: a request with any style and any integer size, sizes 0, negative and
\* 7 included, against a non-empty pool completes and returns a list; it
\* never raises an error.
C6_NeverRaises == pc # "raised" /\ error = ""

\* C7: for sizes 2 and more and every style, when the pool is empty or holds
\* fewer Candidates than the requested size, the search of every strategy
\* leaves an empty list, get_slips returns an empty list and raises no
\* error, and the sampling does no trial.
C7_UndersizedPool ==
    (target_size >= 2 /\ pc \notin {"idle", "rows"} /\ Len(candidates) < target_size) =>
        /\ all_valid_slips = <<>>
        /\ result = <<>>
        /\ trials = 0
        /\ pc # "raised" /\ error = ""

\* a request of size 5 that has returned, its pool neither empty nor of 5
C7_Witness ==
    /\ pc = "done" /\ target_size = 5
    /\ candidates # <<>> /\ Len(candidates) < 5
    /\ result = <<>> /\ trials = 0

\* the rows of the table that give the Candidate c
RowsGiving(c) == {i \in DOMAIN table : ExtractRow(table[i]) = <<c>>}

\* the rows of the table that give a Candidate
RowsInPool == {i \in DOMAIN table : ExtractRow(table[i]) # <<>>}

\* C8: a size 1 request against a pool of n Candidates returns min(51, n)
\* single-leg entries, the Candidates of highest Fair_Win_Pct in
\* non-increasing order, each with Avg_Win_Pct its leg's Fair_Win_Pct and
\* Is_Fallback true, whatever the thresholds.
C8_SinglePropView ==
    (pc = "done" /\ target_size = 1) =>
        LET n == Cardinality(RowsInPool)
            Shown(c) == {i \in 1..Len(result) : result[i].Legs = <<c>>}
        IN  /\ Len(result) = IF n < 51 THEN n ELSE 51
            /\ NonIncreasing(result)
            /\ \A i \in 1..Len(result) :
                   /\ Len(result[i].Legs) = 1
                   /\ result[i].Avg_Win_Pct = result[i].Legs[1].Fair_Win_Pct
                   /\ result[i].Is_Fallback
                   /\ RowsGiving(result[i].Legs[1]) # {}
            /\ \A r \in RowsInPool :
                   LET c == ExtractRow(table[r])[1]
                   IN  /\ Cardinality(Shown(c)) <= Cardinality(RowsGiving(c))
                       /\ c.Fair_Win_Pct > result[Len(result)].Avg_Win_Pct =>
                              Cardinality(Shown(c)) = Cardinality(RowsGiving(c))

\* a size 1 request on a pool of more than 51 that has returned 51 entries,
\* the last below the default threshold and a Candidate of the same
\* percentage left out
C8_Witness ==
    /\ pc = "done" /\ target_size = 1
    /\ Len(candidates) > 51
    /\ Len(result) = 51
    /\ result[51].Avg_Win_Pct < default_threshold
    /\ candidates[52].Fair_Win_Pct = result[51].Avg_Win_Pct

(***************************************************************************)
(* Exact products of two mantissas, for the comparison of two ratios: a    *)
(* natural below 2^140 in ten limbs of 14 bits, the lowest first.          *)
(***************************************************************************)
Limb == 2^14

WideLen == 4 + 6

\* the limbs of a Big below 2^56
WideOfBig(x) ==
    <<x[3] % Limb,
      (x[3] \div Limb) % Limb,
      (x[3] \div (Limb * Limb)) + (x[2] % 2^12) * 4,
      x[2] \div 2^12>>

\* the carries of raw, limb i on, taken up
RECURSIVE WideCarry(_, _, _, _)
WideCarry(raw, i, carry, acc) ==
    IF i > Len(raw) THEN acc
    ELSE WideCarry(raw, i + 1, (raw[i] + carry) \div Limb,
                   Append(acc, (raw[i] + carry) % Limb))

WideMul(x, y) ==
    LET Term(i, k) == IF k + 1 - i \in 1..4 THEN x[i] * y[k + 1 - i] ELSE 0
    IN  WideCarry([k \in 1..WideLen |->
                      Term(1, k) + Term(2, k) + Term(3, k) + Term(4, k)], 1, 0, <<>>)

\* a * c for c < 2^16
WideScale(a, c) == WideCarry([k \in 1..WideLen |-> a[k] * c], 1, 0, <<>>)

\* a - b for a >= b
WideSub(a, b) == WideCarry([k \in 1..WideLen |-> a[k] - b[k]], 1, 0, <<>>)

WideLt(a, b) ==
    \E k \in 1..WideLen : a[k] < b[k] /\ \A j \in (k + 1)..WideLen : a[j] = b[j]

\* a with its three lowest limbs dropped: a \div 2^42
WideDrop3(a) == [k \in 1..WideLen |-> IF k + 3 <= WideLen THEN a[k + 3] ELSE 0]

\* the products x1 * y1 and x2 * y2 of binary64 values, none zero, as two
\* naturals on one scale; <<>> when they are more than a factor 2 apart in
\* exponent
OnOneScale(x1, y1, x2, y2) ==
    LET a  == WideMul(WideOfBig(x1.m), WideOfBig(y1.m))
        b  == WideMul(WideOfBig(x2.m), WideOfBig(y2.m))
        de == (x1.e + y1.e) - (x2.e + y2.e)
    IN  IF de = 0 THEN <<a, b>>
        ELSE IF de = 1 THEN <<WideScale(a, 2), b>>
        ELSE IF de = 0 - 1 THEN <<a, WideScale(b, 2)>>
        ELSE <<>>

\* x1 * y1 = x2 * y2
ProductsEqual(x1, y1, x2, y2) ==
    IF F64IsZero(x1) \/ F64IsZero(y1) THEN F64IsZero(x2) \/ F64IsZero(y2)
    ELSE IF F64IsZero(x2) \/ F64IsZero(y2) THEN FALSE
    ELSE LET ab == OnOneScale(x1, y1, x2, y2)
         IN  ab # <<>> /\ ab[1] = ab[2]

\* |x1 * y1 - x2 * y2| * 2^51 <= x2 * y2, up to the 42 lowest bits of the
\* right-hand side
ProductsClose(x1, y1, x2, y2) ==
    IF F64IsZero(x1) \/ F64IsZero(y1) THEN F64IsZero(x2) \/ F64IsZero(y2)
    ELSE IF F64IsZero(x2) \/ F64IsZero(y2) THEN FALSE
    ELSE LET ab == OnOneScale(x1, y1, x2, y2)
             d  == IF WideLt(ab[1], ab[2]) THEN WideSub(ab[2], ab[1])
                   ELSE WideSub(ab[1], ab[2])
         IN  ab # <<>> /\ ~WideLt(WideDrop3(ab[2]), WideScale(d, 2^9))

\* 1 - 2^-52 and 1 + 2^-52, the binary64 neighbours of 1 at that distance
BelowOne == [m |-> BigSub(Two53, <<0, 0, 2>>), e |-> 0 - 53]

AboveOne == [m |-> BigInc(Two52), e |-> 0 - 52]

\* 1 - 2^-53, the binary64 number next below 1
NextBelowOne == [m |-> BigSub(Two53, <<0, 0, 1>>), e |-> 0 - 53]

\* calculate_novig has returned for odds that are not both zero
Returned == novig # <<>> /\ (over_odds # 0 \/ under_odds # 0)

\* C10 as stated: for two odds not both zero, fair_over + fair_under = 1,
\* each of the two is in [0, 1], and fair_over / fair_under is the ratio of
\* the two implied probabilities (as an equality of cross products, which
\* also reads when fair_under is 0).
C10_SumsToOne ==
    Returned =>
        /\ F64Add(novig[1], novig[2]) = F64One
        /\ F64Le(novig[1], F64One) /\ F64Le(novig[2], F64One)
        /\ ProductsEqual(novig[1], get_implied(under_odds),
                         novig[2], get_implied(over_odds))

\* C10 amended: for two odds not both zero, fair_over + fair_under is within
\* 2^-52 of 1 (one of 1 - 2^-52, 1 - 2^-53, 1 and 1 + 2^-52: it is 1 - 2^-52
\* for odds -150 and -120, 1 - 2^-53 for odds -150 and -50, 1 + 2^-52 for
\* odds -80 and 40, 1 for odds -110 and -110), each of the two is in [0, 1],
\* and fair_over * implied_under differs from fair_under * implied_over by at
\* most 2^-51 of it.
C10_SumsToOneRounded ==
    Returned =>
        /\ F64Add(novig[1], novig[2]) \in {BelowOne, NextBelowOne, F64One, AboveOne}
        /\ (over_odds = 0 - 150 /\ under_odds = 0 - 120)
               => F64Add(novig[1], novig[2]) = BelowOne
        /\ (over_odds = 0 - 150 /\ under_odds = 0 - 50)
               => F64Add(novig[1], novig[2]) = NextBelowOne
        /\ (over_odds = 0 - 80 /\ under_odds = 40)
               => F64Add(novig[1], novig[2]) = AboveOne
        /\ (over_odds = 0 - 110 /\ under_odds = 0 - 110)
               => F64Add(novig[1], novig[2]) = F64One
        /\ F64Le(novig[1], F64One) /\ F64Le(novig[2], F64One)
        /\ ProductsClose(novig[1], get_implied(under_odds),
                         novig[2], get_implied(over_odds))

\* the call for odds -150 and -120 has returned two values whose sum is
\* 1 - 2^-52 and whose cross products differ
C10_Witness ==
    /\ Returned
    /\ over_odds = 0 - 150 /\ under_odds = 0 - 120
    /\ F64Add(novig[1], novig[2]) = BelowOne
    /\ ~ProductsEqual(novig[1], get_implied(under_odds),
                      novig[2], get_implied(over_odds))

\* C11: calculate_novig is total on integer odds: for over odds 0 and under
\* odds 0, whose implied probabilities are both zero, it returns (0.0, 0.0),
\* and for no pair of odds does it raise an error.
C11_NovigTotal ==
    novig # <<>> =>
        /\ ~Raised(novig)
        /\ Len(novig) = 2
        /\ (over_odds = 0 /\ under_odds = 0) => novig = <<F64Zero, F64Zero>>

\* the call with both odds 0 has returned, its market sum having been 0.0
C11_Witness ==
    /\ over_odds = 0 /\ under_odds = 0
    /\ F64IsZero(F64Add(get_implied(over_odds), get_implied(under_odds)))
    /\ novig = <<F64Zero, F64Zero>>

\* the loop over the rows has come to its end
RowsDone == pc = "rows" /\ row_i > Len(table)

\* the Candidates of the rows of t from the i-th on, in the order of the rows
RECURSIVE CandidatesFrom(_, _)
CandidatesFrom(t, i) ==
    IF i > Len(t) THEN <<>> ELSE ExtractRow(t[i]) \o CandidatesFrom(t, i + 1)

\* the pool is the one the table without its i-th row gives
AsIfAbsent(i) == candidates = CandidatesFrom(RemoveAt(table, i), 1)

\* the row has no player name
NoPlayer(row) == row.Player = ""

\* C12 as stated: a malformed row, one with a non-numeric line or with a
\* missing player name, yields no Candidate and raises no error, and the
\* Candidates of the other rows are the same as if that row were absent.
C12_MalformedSkipped ==
    /\ pc # "raised" /\ error = ""
    /\ RowsDone =>
           \A i \in DOMAIN table :
               (~LinesNumeric(table[i]) \/ NoPlayer(table[i])) => AsIfAbsent(i)

\* C12 amended: a row with a non-numeric line yields no Candidate and raises
\* no error, and the Candidates of the other rows are the same as if that row
\* were absent; a row with a missing player name and numeric lines is not
\* skipped: it raises no error and, when its lines are within 0.5 and a fair
\* probability exceeds 53.5, it yields one Candidate with the text "nan" as
\* Player, next to the Candidates the other rows give without it.
C12_NonNumericSkipped ==
    /\ pc # "raised" /\ error = ""
    /\ RowsDone =>
           /\ candidates = CandidatesFrom(table, 1)
           /\ \A i \in DOMAIN table :
                  LET row == table[i]
                  IN  /\ ~LinesNumeric(row) => AsIfAbsent(i)
                      /\ ( /\ NoPlayer(row) /\ LinesNumeric(row)
                           /\ Abs(row.FD.halves - row.PP.halves) <= 1
                           /\ (row.FairOver > 5350 \/ row.FairUnder > 5350) ) =>
                             /\ Len(candidates) =
                                    Len(CandidatesFrom(RemoveAt(table, i), 1)) + 1
                             /\ \E k \in 1..Len(candidates) :
                                    /\ candidates[k].Player = "nan"
                                    /\ candidates[k].id = "nan_" \o row.Prop

\* the loop has ended on a table of a row whose lines are no numbers and a
\* row without a player name: the pool holds the second row's Candidate only
C12_Witness ==
    /\ RowsDone /\ Len(table) = 2
    /\ ~LinesNumeric(table[1]) /\ ~Parses(table[1].FD)
    /\ NoPlayer(table[2]) /\ LinesNumeric(table[2])
    /\ Len(candidates) = 1
    /\ candidates[1].Player = "nan"

\* the Fair_Win_Pct of the legs of a slip
LegPcts(slip) == [k \in 1..Len(slip.Legs) |-> slip.Legs[k].Fair_Win_Pct]

\* C13 as stated: for every slip of size 2 and more that a strategy produces,
\* the stored Total_Edge is the slip's stored Avg_Win_Pct (the mean already
\* rounded to 2 decimals) minus the threshold of the request, rounded to 2
\* decimal places.
C13_EdgeFromStored ==
    target_size >= 2 =>
        \A i \in 1..Len(all_valid_slips) :
            all_valid_slips[i].Total_Edge = all_valid_slips[i].Avg_Win_Pct - threshold

\* C13 amended: for every slip of size 2 and more that a strategy produces
\* (the raw list as the strategy leaves it to the ranker), the stored
\* Total_Edge is the unrounded mean of the legs' Fair_Win_Pct minus the
\* threshold of the request, rounded to 2 decimal places; it is within 0.01
\* of the stored Avg_Win_Pct minus the threshold; legs 60 and 58 under
\* threshold 57.74 give Avg_Win_Pct 59.0 and Total_Edge 1.26.
C13_EdgeFromMean ==
    (pc = "rank" /\ target_size >= 2) =>
        \A i \in 1..Len(all_valid_slips) :
            LET slip == all_valid_slips[i]
                mean == MeanF64(slip.Legs, target_size)
            IN  /\ slip.Total_Edge = Round2(F64Sub(mean, PctF64[threshold]))
                /\ slip.Total_Edge - (slip.Avg_Win_Pct - threshold) \in {0 - 1, 0, 1}
                /\ (LegPcts(slip) = <<6000, 5800>> /\ threshold = 5774) =>
                       slip.Avg_Win_Pct = 5900 /\ slip.Total_Edge = 126

\* a returned slip whose Total_Edge is 0.01 more than its stored Avg_Win_Pct
\* minus the threshold
C13_Witness ==
    /\ pc = "done" /\ target_size >= 2
    /\ \E i \in 1..Len(result) :
           result[i].Total_Edge = result[i].Avg_Win_Pct - threshold + 1

\* the row's two lines are numbers within 0.5 of each other
PassesLineChecks(row) ==
    LinesNumeric(row) /\ Abs(row.FD.halves - row.PP.halves) <= 1

\* C14: for a row that passes the line checks, the direction is OVER whenever
\* the OVER fair probability exceeds 53.5, whatever the UNDER fair probability
\* is; it is UNDER only when the OVER fair probability is at most 53.5 and
\* the UNDER fair probability exceeds 53.5; otherwise the row yields no
\* Candidate.
C14_OverPrecedence ==
    [][(AtRow /\ PassesLineChecks(table[row_i])) =>
        LET row == table[row_i]
        IN  IF row.FairOver > 5350
            THEN Len(Appended) = 1 /\ Appended[1].Bet_Direction = "OVER"
            ELSE IF row.FairUnder > 5350
            THEN Len(Appended) = 1 /\ Appended[1].Bet_Direction = "UNDER"
            ELSE Appended = <<>>]_vars

\* the loop has passed three kinds of rows in two: a first row with both
\* sides above 53.5, the UNDER side the greater, which gave OVER, and a second
\* row with the OVER side at 53.5 and the UNDER side above, which gave UNDER
C14_Witness ==
    /\ pc = "rows" /\ row_i = 3
    /\ PassesLineChecks(table[1]) /\ PassesLineChecks(table[2])
    /\ table[1].FairOver = 5351 /\ table[1].FairUnder = 6000
    /\ table[2].FairOver = 5350 /\ table[2].FairUnder = 5351
    /\ Len(candidates) = 2
    /\ candidates[1].Bet_Direction = "OVER"
    /\ candidates[2].Bet_Direction = "UNDER"

\* the pairing loop is at an iteration
AtPairing == pc = "pairing" /\ Len(search_pool) >= 2

\* the step has appended a slip to all_valid_slips
Formed == Len(all_valid_slips') = Len(all_valid_slips) + 1

NewSlip == all_valid_slips'[Len(all_valid_slips')]

\* the two candidates have different teams and a mean Fair_Win_Pct above the
\* threshold of the request
Eligible(a, b) ==
    /\ a.Team # b.Team
    /\ F64Lt(PctF64[threshold], MeanF64(<<a, b>>, 2))

\* seq without its elements at the positions of the set gone
Without(seq, gone) ==
    LET Keep(k) == CHOOSE i \in DOMAIN seq :
                       /\ i \notin gone
                       /\ Cardinality({j \in 1..i : j \notin gone}) = k
    IN  [k \in 1..(Len(seq) - Cardinality(gone)) |-> seq[Keep(k)]]

\* C15: in greedy pairing (size 2, style power), each step takes as leg1 the
\* remaining candidate with the highest Fair_Win_Pct and pairs it with the
\* lowest-ranked remaining candidate leg2 for which the pair's mean exceeds
\* the threshold and the teams differ: no remaining candidate ranked below
\* leg2 satisfies both conditions with leg1, and both legs are removed from
\* the remaining pool when the slip is formed.
C15_LowestRankedPartner ==
    [][(AtPairing /\ Formed) =>
        \E b \in 2..Len(search_pool) :
            /\ NewSlip.Legs = <<search_pool[1], search_pool[b]>>
            /\ \A k \in 1..Len(search_pool) :
                   search_pool[1].Fair_Win_Pct >= search_pool[k].Fair_Win_Pct
            /\ Eligible(search_pool[1], search_pool[b])
            /\ \A j \in (b + 1)..Len(search_pool) :
                   ~Eligible(search_pool[1], search_pool[j])
            /\ search_pool' = Without(search_pool, {1, b})]_vars

\* the loop has formed a second slip whose leg2 was not the last of the
\* remaining pool: the candidate ranked below it, on leg1's team, is left
C15_Witness ==
    /\ pc = "pairing" /\ target_size = 2 /\ style = "power"
    /\ Len(all_valid_slips) = 2
    /\ Len(search_pool) = 1
    /\ search_pool[1].Team = all_valid_slips[2].Legs[1].Team
    /\ \E a, b \in 1..Len(candidates) :
           /\ a < b
           /\ candidates[a] = all_valid_slips[2].Legs[2]
           /\ candidates[b] = search_pool[1]

\* the number of places of seq that hold x
Occurs(seq, x) == Cardinality({i \in DOMAIN seq : seq[i] = x})

\* the legs of the raw slips, one after the other
RECURSIVE LegsOf(_, _)
LegsOf(slips, i) ==
    IF i > Len(slips) THEN <<>> ELSE slips[i].Legs \o LegsOf(slips, i + 1)

\* the pairing loop has been entered
InPairing == target_size = 2 /\ style = "power" /\ pc \notin {"idle", "rows"}

\* C16: greedy pairing terminates for every finite pool: every iteration
\* removes at least one candidate from the remaining pool (leg1 alone when it
\* finds no partner, leg1 and leg2 when it does), a removed candidate never
\* re-enters the pool, and the loop ends when fewer than 2 candidates remain;
\* so each candidate is a leg of at most one raw slip and a pool of n
\* candidates yields at most floor(n/2) slips.
C16_PairingTerminates ==
    /\ [][AtPairing =>
              /\ IsSubseqFrom(search_pool', 1, search_pool, 1)
              /\ Len(search_pool') = IF Formed THEN Len(search_pool) - 2
                                     ELSE Len(search_pool) - 1
              /\ ~Formed => search_pool' = Tail(search_pool)]_vars
    /\ [][(pc = "pairing" /\ pc' # "pairing") => Len(search_pool) < 2]_vars
    /\ [](InPairing =>
              LET legs == LegsOf(all_valid_slips, 1)
              IN  /\ \A k \in 1..Len(legs) :
                         Occurs(legs, legs[k]) + Occurs(search_pool, legs[k])
                             <= Occurs(candidates, legs[k])
                  /\ 2 * Len(all_valid_slips) + Len(search_pool) <= Len(candidates)
                  /\ Len(all_valid_slips) <= Len(candidates) \div 2)
    /\ (pc = "pairing" ~> (pc = "rank" /\ Len(search_pool) < 2))

\* the loop has ended on a pool of 4 after an iteration that removed two
\* candidates for a slip and one that removed a leg1 alone
C16_Witness ==
    /\ pc = "rank" /\ target_size = 2 /\ style = "power"
    /\ Len(candidates) = 4
    /\ Len(all_valid_slips) = 1
    /\ Len(search_pool) = 1

\* the ids of the legs of the slips of a list
IdsOf(slips) == UNION {slips[k].Leg_Ids : k \in 1..Len(slips)}

\* the walk is at a slip: the list is not used up and the cap is not reached
AtSlip == pc = "walk" /\ rank_i <= Len(all_valid_slips) /\ Len(final_slips) < limit

\* the i-th slip of the sorted raw list is in the returned list
InResult(i) == \E k \in 1..Len(result) : result[k] = all_valid_slips[i]

\* the i-th slip of the sorted raw list shares a leg id with a returned slip
\* that is before it in the sorted order
BehindSharer(i) ==
    \E j \in 1..(i - 1) :
        /\ InResult(j)
        /\ all_valid_slips[j].Leg_Ids \cap all_valid_slips[i].Leg_Ids # {}

\* C17: in the ranker's walk over the sorted raw slips (size >= 2), a slip is
\* accepted exactly when its Leg_Ids are disjoint from the ids of all slips
\* accepted before it; hence, while the 1,000-slip cap is not reached, every
\* raw slip that is not returned shares at least one leg id with a returned
\* slip that precedes it in sorted order, and the returned list never holds
\* more than 1,000 slips.
C17_RankerWalk ==
    /\ [][AtSlip =>
              LET slip == all_valid_slips[rank_i]
              IN  final_slips' =
                      IF slip.Leg_Ids \cap IdsOf(final_slips) = {}
                      THEN Append(final_slips, slip) ELSE final_slips]_vars
    /\ []((pc = "done" /\ target_size # 1 /\ Len(result) < limit) =>
              \A i \in 1..Len(all_valid_slips) : InResult(i) \/ BehindSharer(i))
    /\ [](Len(final_slips) <= limit /\ Len(result) <= limit)

\* a returned list of two slips and more, and a raw slip turned down that
\* shares no id with the slip accepted last before it
C17_Witness ==
    /\ pc = "done" /\ target_size # 1
    /\ Len(result) >= 2
    /\ \E i \in 1..Len(all_valid_slips) :
           /\ ~InResult(i)
           /\ BehindSharer(i)
           /\ \E j \in 1..(i - 1) :
                  /\ InResult(j)
                  /\ \A k \in (j + 1)..(i - 1) : ~InResult(k)
                  /\ all_valid_slips[j].Leg_Ids \cap all_valid_slips[i].Leg_Ids = {}

\* the request is served by the loop over the combinations
BruteRequest ==
    /\ target_size >= 2 /\ target_size < monte_carlo_size
    /\ ~(target_size = 2 /\ style = "power")

\* the combinations of the pool of the target size, as sets of places
IndexSets ==
    {{c[i] : i \in 1..target_size} :
        c \in {c \in [1..target_size -> 1..Len(candidates)] :
                  \A i \in 1..(target_size - 1) : c[i] < c[i + 1]}}

\* the candidates at the places S, in the pool's order
ComboOf(S) ==
    [k \in 1..Cardinality(S) |->
        candidates[CHOOSE i \in S : Cardinality({j \in S : j < i}) = k - 1]]

\* the mean of the combination exceeds the threshold
MeanAbove(S) == F64Lt(PctF64[threshold], MeanF64(ComboOf(S), target_size))

\* the players are pairwise distinct and the teams number at least 2
PlayersTeamsOk(S) ==
    /\ \A i, j \in S : i # j => candidates[i].Player # candidates[j].Player
    /\ \E i, j \in S : candidates[i].Team # candidates[j].Team

\* the sets of k places of the pool whose players are pairwise distinct
RECURSIVE DistinctSets(_)
DistinctSets(k) ==
    IF k = 0 THEN {{}}
    ELSE {x[1] \cup {x[2]} :
             x \in {y \in DistinctSets(k - 1) \X DOMAIN candidates :
                       \A j \in y[1] : /\ j < y[2]
                                       /\ candidates[j].Player # candidates[y[2]].Player}}

\* the combinations among `sets` that pass the three tests
QualifyingOf(sets) == {S \in sets : MeanAbove(S) /\ PlayersTeamsOk(S)}

Qualifying == QualifyingOf(DistinctSets(target_size))

\* the places of S in increasing order
PlacesOf(S) ==
    [k \in 1..Cardinality(S) |->
        CHOOSE i \in S : Cardinality({j \in S : j < i}) = k - 1]

\* the number of combinations of Len(c) places of 1..n that agree with c
\* before the j-th place or a later one and have a lower place there
RECURSIVE CombosBefore(_, _, _)
CombosBefore(c, n, j) ==
    IF j > Len(c) THEN 0
    ELSE LET prev == IF j = 1 THEN 0 ELSE c[j - 1]
             r    == Len(c) - j + 1
         IN  Binomial(n - prev, r) - Binomial(n - c[j] + 1, r)
                 + CombosBefore(c, n, j + 1)

\* the number of the iteration of the loop that the combination S is due in:
\* its rank in the order of itertools.combinations
IterationOf(S) == CombosBefore(PlacesOf(S), Len(candidates), 1) + 1

\* the qualifying combinations due within the first limit_check_max iterations
QualifyingSeen == {S \in Qualifying : IterationOf(S) <= limit_check_max}

\* the raw list holds each combination of Q as often as the pool gives it,
\* and nothing else
HoldsExactly(slips, Q) ==
    /\ \A S \in Q :
           Cardinality({k \in 1..Len(slips) : slips[k].Legs = ComboOf(S)})
               = Cardinality({T \in Q : ComboOf(T) = ComboOf(S)})
    /\ \A k \in 1..Len(slips) : \E S \in Q : slips[k].Legs = ComboOf(S)

\* the pool is short enough to list all of its combinations
Listable == Len(candidates) < CutRows - 1

\* C18: exhaustive enumeration (sizes 3-4, and size 2 when the style is not
\* power) evaluates at most 3,000,000 combinations and collects at most 2,000
\* qualifying slips, stopping at whichever bound is hit first; when neither
\* bound is hit, the raw list holds exactly the combinations of the pool of
\* the target size whose mean Fair_Win_Pct exceeds the threshold, whose
\* players are pairwise distinct and whose teams number at least 2.
\* (every raw slip is a qualifying combination among the first 3,000,000 of
\* the order of itertools.combinations; with fewer than 2,000 of those the
\* raw list holds exactly them, and the counter ends at the number of
\* combinations or, with more than 3,000,000 of them, at 3,000,001; with
\* 2,000 or more of those the list holds 2,000 and the loop stops at the
\* iteration of the 2,000th)
C18_ExhaustiveEnumeration ==
    (pc = "rank" /\ BruteRequest) =>
        LET q     == Qualifying
            seen  == QualifyingSeen
            legs  == {ComboOf(S) : S \in seen}
            total == Binomial(Len(candidates), target_size)
        IN  /\ limit_check <= limit_check_max + 1
            /\ Len(all_valid_slips) <= max_slips
            /\ \A k \in 1..Len(all_valid_slips) : all_valid_slips[k].Legs \in legs
            /\ Len(all_valid_slips) =
                   IF Cardinality(seen) < max_slips THEN Cardinality(seen)
                   ELSE max_slips
            /\ Cardinality(seen) < max_slips =>
                   /\ HoldsExactly(all_valid_slips, seen)
                   /\ limit_check = IF total > limit_check_max
                                    THEN limit_check_max + 1 ELSE total
            /\ Cardinality(seen) >= max_slips =>
                   \E S \in seen : /\ all_valid_slips[max_slips].Legs = ComboOf(S)
                                   /\ IterationOf(S) = limit_check
            /\ (total <= limit_check_max /\ Cardinality(q) < max_slips)
                  => HoldsExactly(all_valid_slips, q)
            /\ Listable =>
                   /\ Cardinality(IndexSets) = total
                   /\ QualifyingOf(IndexSets) = q

\* the loop over the combinations has been left by the break of line 219
\* with fewer than max_slips slips: the raw list holds a slip, and a
\* combination that passes the three tests and is due after limit_check_max
\* iterations is not in it
C18_Witness ==
    /\ pc = "rank" /\ BruteRequest
    /\ limit_check = limit_check_max + 1
    /\ all_valid_slips # <<>> /\ Len(all_valid_slips) < max_slips
    /\ \E S \in Qualifying :
           /\ IterationOf(S) > limit_check_max
           /\ \A k \in 1..Len(all_valid_slips) : all_valid_slips[k].Legs # ComboOf(S)

\* a raw list of the loop over the combinations cut at max_slips slips, from
\* a pool with more qualifying combinations, with a combination of mean
\* above the threshold that is turned down for its players, one that is
\* turned down for its teams, and one of mean not above the threshold
MaxSlipsReached ==
    /\ pc = "rank" /\ BruteRequest
    /\ Len(all_valid_slips) = max_slips
    /\ limit_check < limit_check_max
    /\ Cardinality(Qualifying) > max_slips
    /\ \E S \in IndexSets :
           /\ MeanAbove(S)
           /\ \E i, j \in S : i # j /\ candidates[i].Player = candidates[j].Player
    /\ \E S \in IndexSets :
           /\ MeanAbove(S)
           /\ \A i, j \in S : candidates[i].Team = candidates[j].Team
    /\ \E S \in IndexSets : ~MeanAbove(S)

\* the loop over the combinations has gone through every combination of a
\* pool of one row less, and the raw list holds the slip of the last four
\* places
NeitherBound ==
    /\ pc = "rank" /\ BruteRequest
    /\ Len(candidates) = CutRows - 1
    /\ limit_check = Binomial(Len(candidates), target_size)
    /\ \E k \in 1..Len(all_valid_slips) :
           all_valid_slips[k].Legs =
               ComboOf((Len(candidates) - target_size + 1)..Len(candidates))

\* c is left unpaired: it is in the pool more often than in the legs of the
\* raw slips
Unpaired(c) ==
    Occurs(candidates, c) > Occurs(LegsOf(all_valid_slips, 1), c)

\* the pairing loop has ended
PairingOver == InPairing /\ pc # "pairing"

\* C19: when greedy pairing finishes, the candidates left unpaired (those
\* discarded as leg1 and the last leftover) contain no eligible pair: no two
\* of them have both different teams and a mean Fair_Win_Pct above the
\* threshold, so discarding an unmatched leg1 without retrying it never loses
\* a pair that could still have been formed.
C19_NoEligiblePairLeft ==
    PairingOver =>
        \A i, j \in 1..Len(candidates) :
            (i # j /\ Unpaired(candidates[i]) /\ Unpaired(candidates[j]))
                => ~Eligible(candidates[i], candidates[j])

\* the loop has ended with a slip and two candidates left unpaired, one of
\* them discarded as leg1, that have different teams
C19_Witness ==
    /\ PairingOver
    /\ Len(all_valid_slips) >= 1
    /\ Len(candidates) = 2 * Len(all_valid_slips) + 2
    /\ Len(search_pool) = 1
    /\ \E i, j \in 1..Len(candidates) :
           /\ Unpaired(candidates[i]) /\ Unpaired(candidates[j])
           /\ candidates[i].Team # candidates[j].Team

=============================================================================
